---- MODULE Spec2Model ----
(***************************************************************************)
(* Model of the simulation run orchestrator of didcomm-mediator-testing:   *)
(* SimulationTestService (simulateTest, runSimulation, createAgents,       *)
(* connectAllAgents, retryConnection, runMessageInterval, stopSimulation,  *)
(* updateTestRecord), TenantsService (createTenant, deleteTenant,          *)
(* sendMessage) and the AgentMessageProcessed handler of AgentFactory.     *)
(*                                                                         *)
(* Node runs one cooperative scheduler: a step of the model is the code    *)
(* that runs between two suspension points (an await on the store, on the  *)
(* identity provider or on a timer), microtask continuations included.     *)
(***************************************************************************)
EXTENDS Integers, Sequences, FiniteSets, TLC

(***************************************************************************)
(* Configuration of the run under check and bounds of the model.           *)
(***************************************************************************)
numAgent == 2
maxConcurrentAgentCreation == 1
maxConcurrentMessages == 1
messagesPerConnection == 1
retries == 3
MaxBatches == 1
MaxStops == 1

nameAgent == "TestAgent"
testId == "test-uuid"

VARIABLES
  simPc,          \* position of the simulateTest call
  activeRuns,     \* SimulationTestService.activeRuns: the run ids with a stop signal
  stopSignal,     \* stopSignal.stopRequested of the run (the object outlives the map entry)
  testRecord,     \* the store's value under test:<testId>, NoRecord when absent
  runPc,          \* position of the run body (runSimulation)
  runUpd,         \* the run body's updateTestRecord call: updates and the record it read
  agentIds,       \* runSimulation's local agentIds
  createTask,     \* createAgents: state of each limited creation task
  tenants,        \* TenantsService.tenants: the registered tenant ids
  connTask,       \* connectAllAgents: state of each pair's retryConnection
  connections,    \* state of each pair's connection record at the identity provider
  driver,         \* runMessageInterval: state of each sender's driver
  deadlinePassed, \* Date.now() >= endTime
  delIdx,         \* index of the cleanup loop over agentIds
  stops,          \* the stopSimulation calls
  log,            \* what has happened so far (calls made, failures seen)
  activation,     \* the activateTenantsForTest call and its deferred deletion
  parameters,     \* the run's configuration: messagesPerConnection, the number of
                  \* batches the interval has time for, and numAgent as the run
                  \* record keeps it
  clock,          \* Date.now(), in ms
  sends,          \* the sendMessage calls, by the thread id the provider gives them
  messages,       \* the store's message records, by key
  messageIndex,   \* the store's value under message-index:<threadId>
  stats,          \* the store's hash test:<testId>:stats
  handlers,       \* the runs of the AgentMessageProcessed handler, one per event
  msgLog,         \* the writes the handlers have made (patches, increments)
  tenantCalls,    \* createTenant and deleteTenant calls made from outside a run
  identities,     \* the agents the identity provider holds for each tenant id
  connectionCalls,   \* createConnection calls made from outside a run
  connectionRecords, \* the connection records each tenant's agent holds, by peer
  query,             \* the query of SimulationTestService that is in progress
  reports            \* the reports directory and the files in it

\* the state of the run orchestrator, the tenant registry apart
orchVars == <<simPc, activeRuns, stopSignal, testRecord, runPc, runUpd, agentIds,
              createTask, connTask, connections, driver, deadlinePassed,
              delIdx, stops, log, activation, parameters>>

\* the state of the message ledger and of the handlers that write it
ledgerVars == <<clock, sends, messages, messageIndex, stats, handlers, msgLog>>

\* the state of the direct callers of TenantsService
linkVars == <<connectionCalls, connectionRecords>>

queryVars == <<query, reports>>

poolVars == <<tenantCalls, identities, linkVars, queryVars>>

vars == <<orchVars, tenants, ledgerVars, poolVars>>

\* the agents of the run, by their number i in `${nameAgent}-${i}`
Agents == DOMAIN createTask

\* the pairs of loops whose inner index starts at the first agent again
OrderedPairsOf(n) == (1..n) \X (1..n)

\* the pairs (i, j), i < j, connectAllAgents walks through
PairsOf(n) == {p \in (1..n) \X (1..n) : p[1] < p[2]}

Pairs == DOMAIN connTask

Statuses == {"running", "stopping", "completed", "stopped", "failed"}

Terminal == {"completed", "stopped", "failed"}

NoRecord == [status |-> "absent", endDate |-> FALSE, error |-> FALSE]

\* `${nameAgent}-${i + 1}`
AgentId(i) == <<nameAgent, i>>

\* { ...record, ...updates }
Merge(record, updates) ==
  [status |-> updates.status,
   endDate |-> record.endDate \/ updates.endDate,
   error |-> record.error \/ updates.error]

Limit(configured) == IF configured >= 1 THEN configured ELSE 1

Min(a, b) == IF a <= b THEN a ELSE b

(***************************************************************************)
(* TenantsService: the registry checks of createTenant and deleteTenant.   *)
(***************************************************************************)
\* a createTenant without the registry guard
CreateTenantUnchecked(id, reg) == TRUE

\* createTenant passes its guard when the id is not registered
CreateTenantCheck(id, reg) == id \notin reg

\* this.tenants[tenantId] = { agent }
Register(reg, id) == reg \cup {id}

\* a deleteTenant without the registry guard
DeleteTenantUnchecked(id, reg) == TRUE

\* deleteTenant passes its guard when the id is registered
DeleteTenantCheck(id, reg) == id \in reg

\* deleteTenant that tears the wallet down and forgets to drop the registry entry
UnregisterKeepsEntry(reg, id) == reg

\* delete this.tenants[tenantId]
Unregister(reg, id) == reg \ {id}

(***************************************************************************)
(* createAgents: numAgent creation tasks behind pLimit.                    *)
(***************************************************************************)
\* a limiter that starts every queued task at once
StartCreationUnlimited(ct, reg) ==
  [i \in DOMAIN ct |->
     IF ct[i] # "queued" THEN ct[i]
     ELSE IF CreateTenantCheck(AgentId(i), reg) THEN "creating" ELSE "failed"]

RECURSIVE StartCreation(_, _)
\* pLimit: while a slot is free the oldest queued task starts; its createTenant
\* call checks the registry before it suspends in the provider
StartCreation(ct, reg) ==
  LET active == {i \in DOMAIN ct : ct[i] \in {"creating", "sleeping"}}
      queued == {i \in DOMAIN ct : ct[i] = "queued"}
  IN IF queued = {} \/ Cardinality(active) >= Limit(maxConcurrentAgentCreation)
     THEN ct
     ELSE LET i == CHOOSE x \in queued : \A y \in queued : x <= y
          IN StartCreation(
               [ct EXCEPT ![i] = IF CreateTenantCheck(AgentId(i), reg)
                                 THEN "creating" ELSE "failed"], reg)

\* the createTenant calls made when createTask goes from ct to nt
CountStarted(calls, ct, nt) ==
  [i \in DOMAIN ct |-> IF ct[i] = "queued" /\ nt[i] # "queued"
                    THEN calls[i] + 1 ELSE calls[i]]

\* Promise.all over the creation tasks
CreateOutcome(ct) ==
  IF \E i \in DOMAIN ct : ct[i] = "failed" THEN "rejected"
  ELSE IF \A i \in DOMAIN ct : ct[i] = "done" THEN "resolved"
  ELSE "pending"

\* the run body calls updateTestRecord(testId, updates): the store read is issued
CallUpdate(status, withError) ==
  /\ runPc' = "upd_read"
  /\ runUpd' = [updates |-> [status |-> status, endDate |-> TRUE, error |-> withError],
                existing |-> NoRecord]

\* runSimulation awaiting createAgents, given the new state of the tasks
AwaitCreateAgents(nt) ==
  IF runPc # "creating" THEN UNCHANGED <<runPc, runUpd, agentIds>>
  ELSE IF CreateOutcome(nt) = "rejected"
       THEN CallUpdate("failed", TRUE) /\ UNCHANGED agentIds
  ELSE IF CreateOutcome(nt) = "resolved"
       THEN /\ agentIds' = [i \in 1..Cardinality(DOMAIN nt) |-> AgentId(i)]
            /\ runPc' = "pause1"
            /\ UNCHANGED runUpd
  ELSE UNCHANGED <<runPc, runUpd, agentIds>>

IdleActivation == [pc |-> "idle", delay |-> 0, timer |-> "none", tenantIds |-> <<>>,
                   deletes |-> <<>>, calls |-> 0]

\* activateTenantsForTest awaiting createAgents, given the new state of the
\* tasks: a rejection is thrown to the caller; otherwise the deletion of the
\* tenants is scheduled when the delay is positive, and the call returns
AwaitActivation(nt) ==
  IF activation.pc # "creating" THEN UNCHANGED activation
  ELSE IF CreateOutcome(nt) = "rejected"
       THEN activation' = [activation EXCEPT !.pc = "failed"]
  ELSE IF CreateOutcome(nt) = "resolved"
       THEN activation' = [activation EXCEPT
              !.pc = "returned",
              !.tenantIds = [i \in 1..Cardinality(DOMAIN nt) |-> AgentId(i)],
              !.timer = IF activation.delay > 0 THEN "armed" ELSE "none"]
  ELSE UNCHANGED activation

\* createAgents' tasks move from createTask to nt
CreateStep(nt) ==
  /\ createTask' = nt
  /\ AwaitCreateAgents(nt)
  /\ AwaitActivation(nt)
  /\ log' = [log EXCEPT !.createCalls = CountStarted(@, createTask, nt),
                        !.createFailed = @ \/ (runPc = "creating" /\ CreateOutcome(nt) = "rejected")]

(***************************************************************************)
(* simulateTest                                                            *)
(***************************************************************************)
\* a simulateTest that persists the record without registering a stop signal
SimulateTestWithoutSignal ==
  /\ simPc = "idle"
  /\ simPc' = "persisting"
  /\ stopSignal' = FALSE
  /\ UNCHANGED <<activeRuns, testRecord, runPc, runUpd, agentIds, createTask, tenants,
                 connTask, connections, driver, deadlinePassed, delIdx, stops, log>>
  /\ UNCHANGED <<parameters, ledgerVars, poolVars, activation>>

\* simulateTest up to its await of redis.set
SimulateTest ==
  /\ simPc = "idle"
  /\ simPc' = "persisting"
  /\ activeRuns' = activeRuns \cup {testId}
  /\ stopSignal' = FALSE
  /\ UNCHANGED <<testRecord, runPc, runUpd, agentIds, createTask, tenants, connTask,
                 connections, driver, deadlinePassed, delIdx, stops, log>>
  /\ UNCHANGED <<parameters, ledgerVars, poolVars, activation>>

\* the initial record is stored; runSimulation runs to its first await inside
\* createAgents, and simulateTest returns the test id
SimulatePersisted ==
  /\ simPc = "persisting"
  /\ simPc' = "returned"
  /\ testRecord' = [status |-> "running", endDate |-> FALSE, error |-> FALSE]
  /\ runPc = "idle"
  /\ LET nt == StartCreation([i \in Agents |-> "queued"], tenants)
     IN /\ createTask' = nt
        /\ log' = [log EXCEPT !.createCalls = CountStarted(@, [i \in Agents |-> "queued"], nt),
                              !.createFailed = CreateOutcome(nt) = "rejected"]
        /\ IF CreateOutcome(nt) = "rejected"
           THEN CallUpdate("failed", TRUE)
           ELSE runPc' = "creating" /\ UNCHANGED runUpd
  /\ UNCHANGED <<activeRuns, stopSignal, agentIds, tenants, connTask, connections,
                 driver, deadlinePassed, delIdx, stops>>
  /\ UNCHANGED <<parameters, ledgerVars, poolVars, activation>>

\* redis.set of the initial record rejects: simulateTest throws at its await,
\* before runSimulation is called, and nothing catches the rejection in the service
SimulatePersistFails ==
  /\ simPc = "persisting"
  /\ simPc' = "failed"
  /\ UNCHANGED <<activeRuns, stopSignal, testRecord, runPc, runUpd, agentIds, createTask,
                 tenants, connTask, connections, driver, deadlinePassed, delIdx, stops, log>>
  /\ UNCHANGED <<parameters, ledgerVars, poolVars, activation>>

\* agentFactory.createAgent resolves: the tenant is registered, the task sleeps 1 s
CreateAgentOk(i) ==
  /\ createTask[i] = "creating"
  /\ tenants' = Register(tenants, AgentId(i))
  /\ CreateStep([createTask EXCEPT ![i] = "sleeping"])
  /\ UNCHANGED <<simPc, activeRuns, stopSignal, testRecord, connTask, connections,
                 driver, deadlinePassed, delIdx, stops>>
  /\ UNCHANGED <<parameters, ledgerVars, poolVars>>

\* agentFactory.createAgent throws: the task rejects and pLimit starts the next one
CreateAgentFail(i) ==
  /\ createTask[i] = "creating"
  /\ CreateStep(StartCreation([createTask EXCEPT ![i] = "failed"], tenants))
  /\ UNCHANGED <<simPc, activeRuns, stopSignal, testRecord, tenants, connTask,
                 connections, driver, deadlinePassed, delIdx, stops>>
  /\ UNCHANGED <<parameters, ledgerVars, poolVars>>

\* the task's 1 s sleep ends: the task resolves and pLimit starts the next one
CreateSleepDone(i) ==
  /\ createTask[i] = "sleeping"
  /\ CreateStep(StartCreation([createTask EXCEPT ![i] = "done"], tenants))
  /\ UNCHANGED <<simPc, activeRuns, stopSignal, testRecord, tenants, connTask,
                 connections, driver, deadlinePassed, delIdx, stops>>
  /\ UNCHANGED <<parameters, ledgerVars, poolVars>>

(***************************************************************************)
(* connectAllAgents and retryConnection                                    *)
(***************************************************************************)
\* a catch that gives up only after one attempt more than retries
AttemptFailedLate(k) ==
  IF k > retries THEN [attempt |-> k, phase |-> "failed"]
  ELSE [attempt |-> k, phase |-> "backoff"]

\* the catch of retryConnection after attempt k failed: throw on the last
\* attempt, otherwise wait 2 s
AttemptFailed(k) ==
  IF k = retries THEN [attempt |-> k, phase |-> "failed"]
  ELSE [attempt |-> k, phase |-> "backoff"]

\* attempt k of a pair: createConnection looks both agents up (getTenantAgent
\* throws for an unregistered one) before it suspends in the provider
ConnAttempt(p, k, reg) ==
  IF AgentId(p[1]) \in reg /\ AgentId(p[2]) \in reg
  THEN [attempt |-> k, phase |-> "calling"]
  ELSE AttemptFailed(k)

\* Promise.all over the pairs' tasks
MeshOutcome(nt) ==
  IF \E p \in DOMAIN nt : nt[p].phase = "failed" THEN "rejected"
  ELSE IF \A p \in DOMAIN nt : nt[p].phase = "done" THEN "resolved"
  ELSE "pending"

\* connectAllAgents' tasks move from connTask to nt, runSimulation awaiting them
MeshStep(nt) ==
  /\ connTask' = nt
  /\ IF runPc # "meshing" THEN UNCHANGED <<runPc, runUpd>>
     ELSE IF MeshOutcome(nt) = "rejected" THEN CallUpdate("failed", TRUE)
     ELSE IF MeshOutcome(nt) = "resolved" THEN runPc' = "pause2" /\ UNCHANGED runUpd
     ELSE UNCHANGED <<runPc, runUpd>>
  /\ log' = [log EXCEPT !.meshFailed = @ \/ (runPc = "meshing" /\ MeshOutcome(nt) = "rejected")]

\* a run body that does not look at the stop signal between its phases
StopRequestedNever(signal) == FALSE

\* if (stopSignal.stopRequested) in runSimulation
StopRequested(signal) == signal

\* the pause after createAgents ends: the stop signal is checked, then
\* connectAllAgents starts one retryConnection per pair
Pause1Done ==
  /\ runPc = "pause1"
  /\ IF StopRequested(stopSignal)
     THEN CallUpdate("stopped", FALSE) /\ UNCHANGED <<connTask, log>>
     ELSE LET nt == [p \in Pairs |-> ConnAttempt(p, 1, tenants)]
          IN /\ connTask' = nt
             /\ log' = [log EXCEPT !.meshFailed = MeshOutcome(nt) = "rejected"]
             /\ IF MeshOutcome(nt) = "rejected" THEN CallUpdate("failed", TRUE)
                ELSE IF MeshOutcome(nt) = "resolved" THEN runPc' = "pause2" /\ UNCHANGED runUpd
                ELSE runPc' = "meshing" /\ UNCHANGED runUpd
  /\ UNCHANGED <<simPc, activeRuns, stopSignal, testRecord, agentIds, createTask, tenants,
                 connections, driver, deadlinePassed, delIdx, stops>>
  /\ UNCHANGED <<parameters, ledgerVars, poolVars, activation>>

\* createConnection resolves for the pair: it found a completed connection, or
\* the invitation was accepted and the handshake goes on in the provider
ConnectionOk(p) ==
  /\ connTask[p].phase = "calling"
  /\ connections' = [connections EXCEPT ![p] = IF @ = "none" THEN "requested" ELSE @]
  /\ MeshStep([connTask EXCEPT ![p].phase = "done"])
  /\ UNCHANGED <<simPc, activeRuns, stopSignal, testRecord, agentIds, createTask, tenants,
                 driver, deadlinePassed, delIdx, stops>>
  /\ UNCHANGED <<parameters, ledgerVars, poolVars, activation>>

\* createConnection throws for the pair
ConnectionFail(p) ==
  /\ connTask[p].phase = "calling"
  /\ MeshStep([connTask EXCEPT ![p] = AttemptFailed(connTask[p].attempt)])
  /\ UNCHANGED <<simPc, activeRuns, stopSignal, testRecord, agentIds, createTask, tenants,
                 connections, driver, deadlinePassed, delIdx, stops>>
  /\ UNCHANGED <<parameters, ledgerVars, poolVars, activation>>

\* the provider completes the handshake of the pair
ConnectionCompletes(p) ==
  /\ connections[p] = "requested"
  /\ connections' = [connections EXCEPT ![p] = "completed"]
  /\ UNCHANGED <<simPc, activeRuns, stopSignal, testRecord, runPc, runUpd, agentIds,
                 createTask, tenants, connTask, driver, deadlinePassed, delIdx, stops, log>>
  /\ UNCHANGED <<parameters, ledgerVars, poolVars, activation>>

\* the 2 s backoff of the pair ends: the next attempt starts
BackoffDone(p) ==
  /\ connTask[p].phase = "backoff"
  /\ MeshStep([connTask EXCEPT ![p] = ConnAttempt(p, connTask[p].attempt + 1, tenants)])
  /\ UNCHANGED <<simPc, activeRuns, stopSignal, testRecord, agentIds, createTask, tenants,
                 connections, driver, deadlinePassed, delIdx, stops>>
  /\ UNCHANGED <<parameters, ledgerVars, poolVars, activation>>

(***************************************************************************)
(* runMessageInterval: one driver per sender                               *)
(***************************************************************************)
NoDriver == [phase |-> "none", batches |-> 0, queued |-> 0, selecting |-> 0,
             sending |-> 0, messageCount |-> 0, failed |-> 0]

\* the send tasks of a driver that have not settled (activeTasks)
Pending(d) == d.queued + d.selecting + d.sending

\* a queueBatch whose tasks all start at once, without a limiter
EnqueueUnlimited(d) ==
  [d EXCEPT !.selecting = @ + d.queued + parameters.messagesPerConnection,
            !.queued = 0, !.batches = @ + 1]

\* queueBatch adds messagesPerConnection tasks to the limiter, which starts
\* as many as it has free slots; a started task asks for a random connection
Enqueue(d) ==
  LET total == d.queued + parameters.messagesPerConnection
      free == Limit(maxConcurrentMessages) - (d.selecting + d.sending)
      start == IF free > 0 THEN Min(free, total) ELSE 0
  IN [d EXCEPT !.queued = total - start, !.selecting = @ + start, !.batches = @ + 1]

\* a driver that resolves as soon as queueBatch returns false, without
\* awaiting its active tasks
DrainWithoutWaiting(d) == [d EXCEPT !.phase = "resolved"]

\* a driver that never resolves once queueBatch has returned false
DrainNeverResolves(d) == [d EXCEPT !.phase = "draining"]

\* queueBatch returned false: Promise.allSettled(activeTasks).then(resolve)
Drain(d) ==
  IF Pending(d) = 0 THEN [d EXCEPT !.phase = "resolved"]
  ELSE [d EXCEPT !.phase = "draining"]

\* a limiter whose queued tasks go on to their send after a stop request
TaskSettledStartsNext(d, stop) ==
  LET d1 == IF d.queued = 0 THEN d
            ELSE [d EXCEPT !.queued = @ - 1, !.selecting = @ + 1]
  IN IF d1.phase = "draining" THEN Drain(d1) ELSE d1

\* a task of the driver settled: the limiter starts the next queued task, which
\* returns at once when a stop is requested; allSettled resolves when none is left
TaskSettled(d, stop) ==
  LET d1 == IF d.queued = 0 THEN d
            ELSE IF stop THEN [d EXCEPT !.queued = 0]
            ELSE [d EXCEPT !.queued = @ - 1, !.selecting = @ + 1]
  IN IF d1.phase = "draining" THEN Drain(d1) ELSE d1

\* the drivers move from driver to nd, runSimulation awaiting all of them:
\* when all have resolved it calls updateTestRecord with the final status
DriverStep(nd) ==
  /\ driver' = nd
  /\ IF runPc = "driving" /\ \A a \in Agents : nd[a].phase = "resolved"
     THEN CallUpdate(IF stopSignal THEN "stopped" ELSE "completed", FALSE)
     ELSE UNCHANGED <<runPc, runUpd>>

\* the pause after connectAllAgents ends: the stop signal is checked, then one
\* driver per agent runs its first queueBatch
Pause2Done ==
  /\ runPc = "pause2"
  /\ IF StopRequested(stopSignal)
     THEN CallUpdate("stopped", FALSE) /\ UNCHANGED <<driver, log>>
     ELSE LET nd == [a \in Agents |->
                       IF deadlinePassed THEN Drain(NoDriver)
                       ELSE Enqueue([NoDriver EXCEPT !.phase = "interval"])]
          IN /\ driver' = nd
             /\ log' = [log EXCEPT !.driversLaunched = TRUE]
             /\ IF \A a \in Agents : nd[a].phase = "resolved"
                THEN CallUpdate("completed", FALSE)
                ELSE runPc' = "driving" /\ UNCHANGED runUpd
  /\ UNCHANGED <<simPc, activeRuns, stopSignal, testRecord, agentIds, createTask, tenants,
                 connTask, connections, deadlinePassed, delIdx, stops>>
  /\ UNCHANGED <<parameters, ledgerVars, poolVars, activation>>

\* the interval timer of a driver fires: queueBatch
IntervalTick(a) ==
  /\ driver[a].phase = "interval"
  /\ IF stopSignal \/ deadlinePassed
     THEN DriverStep([driver EXCEPT ![a] = Drain(@)])
     ELSE /\ driver[a].batches < parameters.maxBatches
          /\ DriverStep([driver EXCEPT ![a] = Enqueue(@)])
  /\ UNCHANGED <<simPc, activeRuns, stopSignal, testRecord, agentIds, createTask, tenants,
                 connTask, connections, deadlinePassed, delIdx, stops, log>>
  /\ UNCHANGED <<parameters, ledgerVars, poolVars, activation>>

\* a selection that does not look at the state of the connections
PeersWhateverState(a) == Agents \ {a}

\* the peers the sender has a completed connection with
Peers(a) ==
  {b \in Agents : \E p \in Pairs : /\ p \in {<<a, b>>, <<b, a>>}
                                    /\ connections[p] = "completed"}

\* getRandomConnection resolves with a peer: the message is counted and
\* sendMessage looks both agents up before it suspends
SelectPeer(a) ==
  /\ driver[a].selecting > 0
  /\ \E b \in Peers(a) :
       IF AgentId(a) \in tenants /\ AgentId(b) \in tenants
       THEN DriverStep([driver EXCEPT ![a].selecting = @ - 1, ![a].sending = @ + 1,
                                      ![a].messageCount = @ + 1])
       ELSE DriverStep([driver EXCEPT
              ![a] = TaskSettled([@ EXCEPT !.selecting = @ - 1, !.messageCount = @ + 1,
                                             !.failed = @ + 1], stopSignal)])
  /\ UNCHANGED <<simPc, activeRuns, stopSignal, testRecord, agentIds, createTask, tenants,
                 connTask, connections, deadlinePassed, delIdx, stops, log>>
  /\ UNCHANGED <<parameters, ledgerVars, poolVars, activation>>

\* getRandomConnection resolves with null (no completed connection): the task returns
SelectNone(a) ==
  /\ driver[a].selecting > 0
  /\ Peers(a) = {}
  /\ DriverStep([driver EXCEPT ![a] = TaskSettled([@ EXCEPT !.selecting = @ - 1], stopSignal)])
  /\ UNCHANGED <<simPc, activeRuns, stopSignal, testRecord, agentIds, createTask, tenants,
                 connTask, connections, deadlinePassed, delIdx, stops, log>>
  /\ UNCHANGED <<parameters, ledgerVars, poolVars, activation>>

\* sendMessage resolves: the task logs the message as sent and returns
SendResolves(a) ==
  /\ driver[a].sending > 0
  /\ DriverStep([driver EXCEPT ![a] = TaskSettled([@ EXCEPT !.sending = @ - 1], stopSignal)])
  /\ UNCHANGED <<simPc, activeRuns, stopSignal, testRecord, agentIds, createTask, tenants,
                 connTask, connections, deadlinePassed, delIdx, stops, log>>
  /\ UNCHANGED <<parameters, ledgerVars, poolVars, activation>>

\* a driver that gives up at its first failed send: it drops its queue and
\* stops enqueuing
SendFailedAborts(d, stop) ==
  Drain([d EXCEPT !.sending = @ - 1, !.queued = 0, !.failed = @ + 1])

\* the catch block of a send task: the failure is logged for the sender and
\* the task returns as after a successful send
SendFailed(d, stop) ==
  TaskSettled([d EXCEPT !.sending = @ - 1, !.failed = @ + 1], stop)

\* sendMessage throws: the task catches the error
SendThrows(a) ==
  /\ driver[a].sending > 0
  /\ DriverStep([driver EXCEPT ![a] = SendFailed(@, stopSignal)])
  /\ UNCHANGED <<simPc, activeRuns, stopSignal, testRecord, agentIds, createTask, tenants,
                 connTask, connections, deadlinePassed, delIdx, stops, log>>
  /\ UNCHANGED <<parameters, ledgerVars, poolVars, activation>>

\* the clock reaches endTime
DeadlinePasses ==
  /\ runPc \notin {"idle", "done"}
  /\ ~deadlinePassed
  /\ deadlinePassed' = TRUE
  /\ UNCHANGED <<simPc, activeRuns, stopSignal, testRecord, runPc, runUpd, agentIds,
                 createTask, tenants, connTask, connections, driver, delIdx, stops, log>>
  /\ UNCHANGED <<parameters, ledgerVars, poolVars, activation>>

(***************************************************************************)
(* updateTestRecord of the run body, and the finally block of runSimulation *)
(***************************************************************************)
\* updateTestRecord: redis.get resolves; an absent record ends the call,
\* otherwise redis.set of the merged record is issued
RunUpdateRead ==
  /\ runPc = "upd_read"
  /\ runUpd' = [runUpd EXCEPT !.existing = testRecord]
  /\ runPc' = IF testRecord = NoRecord THEN "upd_resume" ELSE "upd_write"
  /\ UNCHANGED <<simPc, activeRuns, stopSignal, testRecord, agentIds, createTask, tenants,
                 connTask, connections, driver, deadlinePassed, delIdx,
                 stops, log>>
  /\ UNCHANGED <<parameters, ledgerVars, poolVars, activation>>

\* updateTestRecord: the store applies redis.set
RunUpdateWrite ==
  /\ runPc = "upd_write"
  /\ testRecord' = Merge(runUpd.existing, runUpd.updates)
  /\ runPc' = "upd_resume"
  /\ UNCHANGED <<simPc, activeRuns, stopSignal, runUpd, agentIds, createTask, tenants,
                 connTask, connections, driver, deadlinePassed, delIdx,
                 stops, log>>
  /\ UNCHANGED <<parameters, ledgerVars, poolVars, activation>>

RECURSIVE DeleteFrom(_, _, _)
\* the cleanup loop from index idx: a deleteTenant call for an unregistered id
\* throws at once and is logged; the loop stops at the first call that suspends
\* in the provider, or past the end of ids
DeleteFrom(idx, ids, reg) ==
  IF idx > Len(ids) THEN idx
  ELSE IF DeleteTenantCheck(ids[idx], reg) THEN idx
  ELSE DeleteFrom(idx + 1, ids, reg)

\* the deleteTenant calls made when the loop goes from index idx to index k
CountDeleted(calls, ids, idx, k) ==
  [i \in DOMAIN calls |->
     calls[i] + Cardinality({n \in idx..Min(k, Len(ids)) : ids[n] = AgentId(i)})]

\* a cleanup loop that a failed deletion ends
CleanupStopsOnFailure(idx, reg, failed) ==
  LET k == IF failed THEN Len(agentIds) + 1 ELSE DeleteFrom(idx, agentIds, reg)
  IN /\ delIdx' = k
     /\ runPc' = IF k > Len(agentIds) THEN "done" ELSE "deleting"
     /\ log' = [log EXCEPT !.deleteCalls = IF failed THEN @
                                           ELSE CountDeleted(@, agentIds, idx, k),
                           !.deleteFailed = @ \/ failed \/ k > idx]

\* the cleanup loop runs from index idx with the registry reg
CleanupFrom(idx, reg, failed) ==
  LET k == DeleteFrom(idx, agentIds, reg)
  IN /\ delIdx' = k
     /\ runPc' = IF k > Len(agentIds) THEN "done" ELSE "deleting"
     /\ log' = [log EXCEPT !.deleteCalls = CountDeleted(@, agentIds, idx, k),
                           !.deleteFailed = @ \/ failed \/ k > idx]

\* updateTestRecord returned to runSimulation: the finally block removes the
\* stop signal from activeRuns, then waits the cleanup delay when
\* appConfig.agentCleanupDelayMs > 0, and otherwise starts deleting
RunFinally ==
  /\ runPc = "upd_resume"
  /\ activeRuns' = activeRuns \ {testId}
  /\ \/ runPc' = "cleanup_wait" /\ UNCHANGED <<delIdx, log>>
     \/ CleanupFrom(1, tenants, FALSE)
  /\ UNCHANGED <<simPc, stopSignal, testRecord, runUpd, agentIds, createTask, tenants,
                 connTask, connections, driver, deadlinePassed, stops>>
  /\ UNCHANGED <<parameters, ledgerVars, poolVars, activation>>

\* the cleanup delay ends
CleanupDelayDone ==
  /\ runPc = "cleanup_wait"
  /\ CleanupFrom(1, tenants, FALSE)
  /\ UNCHANGED <<simPc, activeRuns, stopSignal, testRecord, runUpd, agentIds, createTask,
                 tenants, connTask, connections, driver, deadlinePassed, stops>>
  /\ UNCHANGED <<parameters, ledgerVars, poolVars, activation>>

\* agent.wallet.delete resolves: the tenant is unregistered, the loop goes on
DeleteOk ==
  /\ runPc = "deleting"
  /\ tenants' = Unregister(tenants, agentIds[delIdx])
  /\ CleanupFrom(delIdx + 1, tenants', FALSE)
  /\ UNCHANGED <<simPc, activeRuns, stopSignal, testRecord, runUpd, agentIds, createTask,
                 connTask, connections, driver, deadlinePassed, stops>>
  /\ UNCHANGED <<parameters, ledgerVars, poolVars, activation>>

\* agent.wallet.delete throws: deleteTenant rethrows, the loop logs and goes on
DeleteFail ==
  /\ runPc = "deleting"
  /\ CleanupFrom(delIdx + 1, tenants, TRUE)
  /\ UNCHANGED <<simPc, activeRuns, stopSignal, testRecord, runUpd, agentIds, createTask,
                 tenants, connTask, connections, driver, deadlinePassed, stops>>
  /\ UNCHANGED <<parameters, ledgerVars, poolVars, activation>>

(***************************************************************************)
(* stopSimulation                                                          *)
(***************************************************************************)
IdleStop == [pc |-> "idle", existing |-> NoRecord, result |-> "none"]

\* a stopSimulation that does not look the run id up in activeRuns
StopSimulationUnchecked(s) ==
  /\ simPc \in {"idle", "returned"}
  /\ stops[s].pc = "idle"
  /\ stopSignal' = TRUE
  /\ stops' = [stops EXCEPT ![s].pc = "read"]
  /\ UNCHANGED <<simPc, activeRuns, testRecord, runPc, runUpd, agentIds, createTask,
                 tenants, connTask, connections, driver, deadlinePassed, delIdx, log>>
  /\ UNCHANGED <<parameters, ledgerVars, poolVars, activation>>

\* a stopSimulation that persists stopping without setting the flag
StopSimulationWithoutFlag(s) ==
  /\ simPc \in {"idle", "returned"}
  /\ stops[s].pc = "idle"
  /\ stops' = [stops EXCEPT
       ![s] = IF testId \in activeRuns THEN [@ EXCEPT !.pc = "read"]
              ELSE [@ EXCEPT !.pc = "returned", !.result = "no_active"]]
  /\ UNCHANGED <<simPc, activeRuns, stopSignal, testRecord, runPc, runUpd, agentIds,
                 createTask, tenants, connTask, connections, driver, deadlinePassed,
                 delIdx, log>>
  /\ UNCHANGED <<parameters, ledgerVars, poolVars, activation>>

\* stopSimulation up to its first await, called for an id no run was started
\* with or for the id simulateTest returned: without a stop signal it returns,
\* otherwise it sets the flag and updateTestRecord issues redis.get
StopSimulation(s) ==
  /\ simPc \in {"idle", "returned"}
  /\ stops[s].pc = "idle"
  /\ IF testId \in activeRuns
     THEN /\ stopSignal' = TRUE
          /\ stops' = [stops EXCEPT ![s].pc = "read"]
     ELSE /\ stops' = [stops EXCEPT ![s].pc = "returned", ![s].result = "no_active"]
          /\ UNCHANGED stopSignal
  /\ UNCHANGED <<simPc, activeRuns, testRecord, runPc, runUpd, agentIds, createTask,
                 tenants, connTask, connections, driver, deadlinePassed, delIdx, log>>
  /\ UNCHANGED <<parameters, ledgerVars, poolVars, activation>>

\* updateTestRecord of stopSimulation: redis.get resolves
StopUpdateRead(s) ==
  /\ stops[s].pc = "read"
  /\ stops' = [stops EXCEPT ![s].existing = testRecord,
                            ![s].pc = IF testRecord = NoRecord THEN "resume" ELSE "write"]
  /\ UNCHANGED <<simPc, activeRuns, stopSignal, testRecord, runPc, runUpd, agentIds,
                 createTask, tenants, connTask, connections, driver, deadlinePassed,
                 delIdx, log>>
  /\ UNCHANGED <<parameters, ledgerVars, poolVars, activation>>

\* updateTestRecord of stopSimulation: the store applies redis.set
StopUpdateWrite(s) ==
  /\ stops[s].pc = "write"
  /\ testRecord' = Merge(stops[s].existing,
                         [status |-> "stopping", endDate |-> FALSE, error |-> FALSE])
  /\ stops' = [stops EXCEPT ![s].pc = "resume"]
  /\ UNCHANGED <<simPc, activeRuns, stopSignal, runPc, runUpd, agentIds, createTask,
                 tenants, connTask, connections, driver, deadlinePassed, delIdx, log>>
  /\ UNCHANGED <<parameters, ledgerVars, poolVars, activation>>

\* stopSimulation returns 'Stop requested'
StopReturn(s) ==
  /\ stops[s].pc = "resume"
  /\ stops' = [stops EXCEPT ![s].pc = "returned", ![s].result = "ack"]
  /\ log' = [log EXCEPT !.stopAcked = TRUE]
  /\ UNCHANGED <<simPc, activeRuns, stopSignal, testRecord, runPc, runUpd, agentIds,
                 createTask, tenants, connTask, connections, driver, deadlinePassed,
                 delIdx>>
  /\ UNCHANGED <<parameters, ledgerVars, poolVars, activation>>

(***************************************************************************)
(* TenantsService.sendMessage and the AgentMessageProcessed handler        *)
(***************************************************************************)
MaxThreads == 1
MaxEvents == 2
MaxTime == 2

\* new Date().toISOString(): the ISO text of a ms clock value
ToISOString(ms) == <<"iso", ms>>

\* new Date(text).getTime(): the ms value of an ISO text
GetTime(iso) == iso[2]

\* `message:${threadId}`
MessageKey(t) == <<"message", t>>

\* `message:${testId}:${threadId}`
RunMessageKey(id, t) == <<"message", id, t>>

KeysOf(threads) ==
  {MessageKey(t) : t \in threads} \cup {RunMessageKey(testId, t) : t \in threads}

NoTimestamp == <<"iso">>

NoMessage == [stored |-> FALSE, timestamp |-> NoTimestamp, testId |-> "",
              processed |-> FALSE, processedTimestamp |-> NoTimestamp,
              processingTimeMs |-> 0]

\* { fromTenantId, toTenantId, message, timestamp }, and testId for a send of a run
MessageRecord(timestamp, id) ==
  [NoMessage EXCEPT !.stored = TRUE, !.timestamp = timestamp, !.testId = id]

IdleSend == [pc |-> "idle", scoped |-> FALSE, timestamp |-> NoTimestamp,
             recordSet |-> FALSE, indexSet |-> FALSE]

IdleHandler == [pc |-> "idle", threadId |-> 0, processedTimestamp |-> NoTimestamp,
                testId |-> "", messageRecord |-> NoMessage, processedTime |-> 0]

\* the handler's choice of key from what it read under message-index:<threadId>
HandlerKey(id, t) == IF id # "" THEN RunMessageKey(id, t) ELSE MessageKey(t)

\* sentTimestamp and processedTime of the handler
ProcessedTime(processedTimestamp, messageRecord) ==
  GetTime(processedTimestamp) - GetTime(messageRecord.timestamp)

\* the record the handler writes back
Patched(messageRecord, processedTimestamp) ==
  [messageRecord EXCEPT !.processed = TRUE,
                        !.processedTimestamp = processedTimestamp,
                        !.processingTimeMs = ProcessedTime(processedTimestamp, messageRecord)]

\* time passes
Tick ==
  /\ clock < MaxTime
  /\ clock' = clock + 1
  /\ UNCHANGED <<sends, messages, messageIndex, stats, handlers, msgLog>>
  /\ UNCHANGED <<orchVars, tenants, poolVars>>

\* sendMessage up to fromAgent.basicMessages.sendMessage: the provider takes
\* the message and names its thread; scoped is whether a testId was passed
SendMessage(t, scoped) ==
  /\ sends[t].pc = "idle"
  /\ sends' = [sends EXCEPT ![t].pc = "provider", ![t].scoped = scoped]
  /\ UNCHANGED <<clock, messages, messageIndex, stats, handlers, msgLog>>
  /\ UNCHANGED <<orchVars, tenants, poolVars>>

\* the provider's send resolves: the send timestamp is taken and the record's
\* write is issued
SendReturns(t) ==
  /\ sends[t].pc = "provider"
  /\ sends' = [sends EXCEPT ![t].pc = "storing", ![t].timestamp = ToISOString(clock)]
  /\ UNCHANGED <<clock, messages, messageIndex, stats, handlers, msgLog>>
  /\ UNCHANGED <<orchVars, tenants, poolVars>>

\* the provider's send throws: sendMessage rethrows, nothing is stored
SendFails(t) ==
  /\ sends[t].pc = "provider"
  /\ sends' = [sends EXCEPT ![t].pc = "failed"]
  /\ UNCHANGED <<clock, messages, messageIndex, stats, handlers, msgLog>>
  /\ UNCHANGED <<orchVars, tenants, poolVars>>

\* redis.set(`message:${threadId}`, record) of a send without testId
StoreRecord(t) ==
  /\ sends[t].pc = "storing"
  /\ ~sends[t].scoped
  /\ messages' = [messages EXCEPT ![MessageKey(t)] = MessageRecord(sends[t].timestamp, "")]
  /\ sends' = [sends EXCEPT ![t].pc = "returned", ![t].recordSet = TRUE]
  /\ UNCHANGED <<clock, messageIndex, stats, handlers, msgLog>>
  /\ UNCHANGED <<orchVars, tenants, poolVars>>

\* a send of a run returns when its record and its index entry are stored
ScopedDone(s) == IF s.recordSet /\ s.indexSet THEN [s EXCEPT !.pc = "returned"] ELSE s

\* the record of a send of a run is stored under message:<testId>:<threadId>
StoreRunRecord(t) ==
  /\ sends[t].pc = "storing"
  /\ sends[t].scoped
  /\ ~sends[t].recordSet
  /\ messages' = [messages EXCEPT
                    ![RunMessageKey(testId, t)] = MessageRecord(sends[t].timestamp, testId)]
  /\ sends' = [sends EXCEPT ![t] = ScopedDone([@ EXCEPT !.recordSet = TRUE])]
  /\ UNCHANGED <<clock, messageIndex, stats, handlers, msgLog>>
  /\ UNCHANGED <<orchVars, tenants, poolVars>>

\* the index entry of a send of a run is stored under message-index:<threadId>
StoreIndex(t) ==
  /\ sends[t].pc = "storing"
  /\ sends[t].scoped
  /\ ~sends[t].indexSet
  /\ messageIndex' = [messageIndex EXCEPT ![t] = testId]
  /\ sends' = [sends EXCEPT ![t] = ScopedDone([@ EXCEPT !.indexSet = TRUE])]
  /\ UNCHANGED <<clock, messages, stats, handlers, msgLog>>
  /\ UNCHANGED <<orchVars, tenants, poolVars>>

\* the provider emits AgentMessageProcessed for a thread it holds: the handler
\* takes processedTimestamp and issues redis.get of the index entry
MessageProcessed(h, t) ==
  /\ handlers[h].pc = "idle"
  /\ sends[t].pc \in {"provider", "storing", "returned"}
  /\ handlers' = [handlers EXCEPT ![h] = [IdleHandler EXCEPT
                    !.pc = "get_index", !.threadId = t,
                    !.processedTimestamp = ToISOString(clock)]]
  /\ UNCHANGED <<clock, sends, messages, messageIndex, stats, msgLog>>
  /\ UNCHANGED <<orchVars, tenants, poolVars>>

\* redis.get(`message-index:${threadId}`) resolves: redis.get(messageKey) is issued
HandlerGetIndex(h) ==
  /\ handlers[h].pc = "get_index"
  /\ handlers' = [handlers EXCEPT ![h].testId = messageIndex[handlers[h].threadId],
                                  ![h].pc = "get_message"]
  /\ UNCHANGED <<clock, sends, messages, messageIndex, stats, msgLog>>
  /\ UNCHANGED <<orchVars, tenants, poolVars>>

\* redis.get(messageKey) resolves: without a record the handler warns and ends,
\* otherwise it computes the processing time and issues redis.set of the record
HandlerGetMessage(h) ==
  /\ handlers[h].pc = "get_message"
  /\ LET messageData == messages[HandlerKey(handlers[h].testId, handlers[h].threadId)]
     IN handlers' = [handlers EXCEPT ![h] =
          IF messageData.stored
          THEN [@ EXCEPT !.messageRecord = messageData,
                         !.processedTime = ProcessedTime(handlers[h].processedTimestamp,
                                                          messageData),
                         !.pc = "set_message"]
          ELSE [@ EXCEPT !.pc = "done"]]
  /\ UNCHANGED <<clock, sends, messages, messageIndex, stats, msgLog>>
  /\ UNCHANGED <<orchVars, tenants, poolVars>>

\* redis.set(messageKey, record) is applied; with a testId in the record the
\* handler goes on to the counters
HandlerSetMessage(h) ==
  /\ handlers[h].pc = "set_message"
  /\ LET key == HandlerKey(handlers[h].testId, handlers[h].threadId)
     IN /\ messages' = [messages EXCEPT
                          ![key] = Patched(handlers[h].messageRecord,
                                           handlers[h].processedTimestamp)]
        /\ msgLog' = [msgLog EXCEPT !.patches[key] = @ + 1]
  /\ handlers' = [handlers EXCEPT
                    ![h].pc = IF handlers[h].messageRecord.testId # ""
                              THEN "incr_count" ELSE "done"]
  /\ UNCHANGED <<clock, sends, messageIndex, stats>>
  /\ UNCHANGED <<orchVars, tenants, poolVars>>

\* redis.hincrby(statsKey, 'totalMessages', 1) is applied
HandlerIncrCount(h) ==
  /\ handlers[h].pc = "incr_count"
  /\ stats' = [stats EXCEPT !.totalMessages = @ + 1]
  /\ msgLog' = [msgLog EXCEPT !.increments[handlers[h].threadId] = @ + 1]
  /\ handlers' = [handlers EXCEPT ![h].pc = "incr_time"]
  /\ UNCHANGED <<clock, sends, messages, messageIndex>>
  /\ UNCHANGED <<orchVars, tenants, poolVars>>

\* redis.hincrby(statsKey, 'totalProcessingTimeMs', processedTime) is applied
HandlerIncrTime(h) ==
  /\ handlers[h].pc = "incr_time"
  /\ stats' = [stats EXCEPT !.totalProcessingTimeMs = @ + handlers[h].processedTime]
  /\ handlers' = [handlers EXCEPT ![h].pc = "done"]
  /\ UNCHANGED <<clock, sends, messages, messageIndex, msgLog>>
  /\ UNCHANGED <<orchVars, tenants, poolVars>>

\* the ledger before any send: nt thread ids and ne events to come
InitLedger(nt, ne) ==
  /\ clock = 0
  /\ sends = [t \in 1..nt |-> IdleSend]
  /\ messages = [k \in KeysOf(1..nt) |-> NoMessage]
  /\ messageIndex = [t \in 1..nt |-> ""]
  /\ stats = [totalMessages |-> 0, totalProcessingTimeMs |-> 0]
  /\ handlers = [h \in 1..ne |-> IdleHandler]
  /\ msgLog = [patches |-> [k \in KeysOf(1..nt) |-> 0],
               increments |-> [t \in 1..nt |-> 0]]

LedgerNext ==
  \/ Tick
  \/ \E t \in DOMAIN sends : \E scoped \in BOOLEAN : SendMessage(t, scoped)
  \/ \E t \in DOMAIN sends : SendReturns(t)
  \/ \E t \in DOMAIN sends : SendFails(t)
  \/ \E t \in DOMAIN sends : StoreRecord(t)
  \/ \E t \in DOMAIN sends : StoreRunRecord(t)
  \/ \E t \in DOMAIN sends : StoreIndex(t)
  \/ \E h \in DOMAIN handlers : \E t \in DOMAIN sends : MessageProcessed(h, t)
  \/ \E h \in DOMAIN handlers : HandlerGetIndex(h)
  \/ \E h \in DOMAIN handlers : HandlerGetMessage(h)
  \/ \E h \in DOMAIN handlers : HandlerSetMessage(h)
  \/ \E h \in DOMAIN handlers : HandlerIncrCount(h)
  \/ \E h \in DOMAIN handlers : HandlerIncrTime(h)

(***************************************************************************)
(* TenantsService.createTenant and deleteTenant called from outside a run  *)
(***************************************************************************)
MaxCallers == 2
MaxIdentities == 2

NoCall == [pc |-> "idle", id |-> <<>>, result |-> "none"]

\* createTenant up to its await: an id in the registry makes it throw,
\* otherwise agentFactory.createAgent is called
CreateTenant(c, id) ==
  /\ tenantCalls[c].pc = "idle"
  /\ identities[id] < MaxIdentities
  /\ tenantCalls' = [tenantCalls EXCEPT ![c] =
       IF CreateTenantCheck(id, tenants)
       THEN [pc |-> "creating", id |-> id, result |-> "none"]
       ELSE [pc |-> "idle", id |-> id, result |-> "already exists"]]
  /\ UNCHANGED <<tenants, identities>>
  /\ UNCHANGED <<orchVars, ledgerVars, linkVars, queryVars>>

\* createAgent resolves with an initialized agent: it is registered under the id
CreateTenantResolved(c) ==
  /\ tenantCalls[c].pc = "creating"
  /\ identities' = [identities EXCEPT ![tenantCalls[c].id] = @ + 1]
  /\ tenants' = Register(tenants, tenantCalls[c].id)
  /\ tenantCalls' = [tenantCalls EXCEPT ![c].pc = "idle", ![c].result = "created"]
  /\ UNCHANGED <<orchVars, ledgerVars, linkVars, queryVars>>

\* createAgent throws: createTenant rejects
CreateTenantRejected(c) ==
  /\ tenantCalls[c].pc = "creating"
  /\ tenantCalls' = [tenantCalls EXCEPT ![c].pc = "idle", ![c].result = "error"]
  /\ UNCHANGED <<tenants, identities>>
  /\ UNCHANGED <<orchVars, ledgerVars, linkVars, queryVars>>

\* deleteTenant up to its await: an id not in the registry makes it throw,
\* otherwise the wallet of the registered agent is deleted
DeleteTenant(c, id) ==
  /\ tenantCalls[c].pc = "idle"
  /\ tenantCalls' = [tenantCalls EXCEPT ![c] =
       IF DeleteTenantCheck(id, tenants)
       THEN [pc |-> "deleting", id |-> id, result |-> "none"]
       ELSE [pc |-> "idle", id |-> id, result |-> "does not exist"]]
  /\ UNCHANGED <<tenants, identities>>
  /\ UNCHANGED <<orchVars, ledgerVars, linkVars, queryVars>>

\* wallet.delete resolves: the entry is removed from the registry
DeleteTenantResolved(c) ==
  /\ tenantCalls[c].pc = "deleting"
  /\ identities[tenantCalls[c].id] > 0
  /\ identities' = [identities EXCEPT ![tenantCalls[c].id] = @ - 1]
  /\ tenants' = Unregister(tenants, tenantCalls[c].id)
  /\ tenantCalls' = [tenantCalls EXCEPT ![c].pc = "idle", ![c].result = "deleted"]
  /\ UNCHANGED <<orchVars, ledgerVars, linkVars, queryVars>>

\* wallet.delete throws: deleteTenant rethrows, the entry stays
DeleteTenantRejected(c) ==
  /\ tenantCalls[c].pc = "deleting"
  /\ tenantCalls' = [tenantCalls EXCEPT ![c].pc = "idle", ![c].result = "error"]
  /\ UNCHANGED <<tenants, identities>>
  /\ UNCHANGED <<orchVars, ledgerVars, linkVars, queryVars>>

\* the ids direct callers use
TenantIds == {AgentId(i) : i \in 1..numAgent}

\* nc direct callers, none of them in a call
(***************************************************************************)
(* TenantsService.createConnection called from outside a run               *)
(***************************************************************************)
MaxConnectionCallers == 2
MaxHandshakes == 2

NoConnectionCall == [pc |-> "idle", from |-> <<>>, to |-> <<>>, result |-> "none"]

\* the (owner, peer) pairs of connection records: owner's agent holds the
\* record, theirLabel is the peer's label, which is its tenant id
RecordKeys == {p \in TenantIds \X TenantIds : p[1] # p[2]}

\* the records of one owner for one peer: those the owner started by accepting
\* an invitation, not yet completed and completed, and the completed ones it
\* holds as the inviter
NoRecords == [requested |-> 0, completed |-> 0, inbound |-> 0]

RECURSIVE HandshakesOver(_, _)
HandshakesOver(recs, keys) ==
  IF keys = {} THEN 0
  ELSE LET p == CHOOSE q \in keys : TRUE
       IN recs[p].requested + recs[p].completed + HandshakesOver(recs, keys \ {p})

\* the invitations accepted so far
Handshakes(recs) == HandshakesOver(recs, DOMAIN recs)

\* a check that never finds a connection
HasExistingConnectionNever(recs, from, to) == FALSE

\* hasExistingConnection: fromAgent holds a record whose theirLabel is the
\* label of toAgent and whose state is completed
HasExistingConnection(recs, from, to) ==
  recs[<<from, to>>].completed + recs[<<from, to>>].inbound > 0

\* createConnection up to its first await: getTenantAgent throws for an
\* unregistered tenant, otherwise hasExistingConnection awaits getAll
CreateConnection(c, from, to) ==
  /\ connectionCalls[c].pc = "idle"
  /\ connectionCalls' = [connectionCalls EXCEPT ![c] =
       IF from \in tenants /\ to \in tenants
       THEN [pc |-> "checking", from |-> from, to |-> to, result |-> "none"]
       ELSE [pc |-> "idle", from |-> from, to |-> to, result |-> "not found"]]
  /\ UNCHANGED <<connectionRecords, tenantCalls, identities, tenants>>
  /\ UNCHANGED <<orchVars, ledgerVars, queryVars>>

\* getAll resolves: with a completed connection the call returns 'already
\* exists', otherwise createNewConnection asks toAgent for an invitation
ConnectionChecked(c) ==
  /\ connectionCalls[c].pc = "checking"
  /\ connectionCalls' = [connectionCalls EXCEPT ![c] =
       IF HasExistingConnection(connectionRecords, @.from, @.to)
       THEN [@ EXCEPT !.pc = "idle", !.result = "already exists"]
       ELSE [@ EXCEPT !.pc = "inviting"]]
  /\ UNCHANGED <<connectionRecords, tenantCalls, identities, tenants>>
  /\ UNCHANGED <<orchVars, ledgerVars, queryVars>>

\* createInvitation and receiveInvitationFromUrl resolve: fromAgent holds a new
\* record for toAgent, the handshake goes on in the provider, and
\* createNewConnection awaits getAll for its debug log
InvitationAccepted(c) ==
  /\ connectionCalls[c].pc = "inviting"
  /\ Handshakes(connectionRecords) < MaxHandshakes
  /\ connectionRecords' =
       [connectionRecords EXCEPT ![<<connectionCalls[c].from, connectionCalls[c].to>>].requested = @ + 1]
  /\ connectionCalls' = [connectionCalls EXCEPT ![c].pc = "listing"]
  /\ UNCHANGED <<tenantCalls, identities, tenants>>
  /\ UNCHANGED <<orchVars, ledgerVars, queryVars>>

\* createInvitation or receiveInvitationFromUrl throws: the catch rethrows
InvitationFailed(c) ==
  /\ connectionCalls[c].pc = "inviting"
  /\ connectionCalls' = [connectionCalls EXCEPT ![c].pc = "idle", ![c].result = "error"]
  /\ UNCHANGED <<connectionRecords, tenantCalls, identities, tenants>>
  /\ UNCHANGED <<orchVars, ledgerVars, queryVars>>

\* the getAll of createNewConnection resolves, the call returns 'established',
\* or it throws and the catch rethrows
ConnectionListed(c) ==
  /\ connectionCalls[c].pc = "listing"
  /\ \E r \in {"established", "error"} :
       connectionCalls' = [connectionCalls EXCEPT ![c].pc = "idle", ![c].result = r]
  /\ UNCHANGED <<connectionRecords, tenantCalls, identities, tenants>>
  /\ UNCHANGED <<orchVars, ledgerVars, queryVars>>

\* the provider completes a handshake (autoAcceptConnection): the record of the
\* accepting side is completed and the inviter holds a completed record too
HandshakeCompletes(p) ==
  /\ connectionRecords[p].requested > 0
  /\ connectionRecords' =
       [connectionRecords EXCEPT ![p].requested = @ - 1, ![p].completed = @ + 1,
                                 ![<<p[2], p[1]>>].inbound = @ + 1]
  /\ UNCHANGED <<connectionCalls, tenantCalls, identities, tenants>>
  /\ UNCHANGED <<orchVars, ledgerVars, queryVars>>

(***************************************************************************)
(* The queries of SimulationTestService: calculateTotals,                  *)
(* getMessagesByTestId, calculateMetricsByAgent, generateReport,           *)
(* and generateConsolidatedReport.                                         *)
(***************************************************************************)
MaxRecords == 2
PageSize == 1

\* the id of a run other than testId, whose record is not in the store
otherTestId == "other-uuid"

QueryIds == {testId, otherTestId}

\* the keys of the store's message records: those of the run, one of the other
\* run and one written by a send without a run id, in the order of the scan
ScanOrder ==
  [i \in 1..(MaxRecords + 2) |->
     IF i = 1 THEN RunMessageKey(testId, 1)
     ELSE IF i = 2 THEN RunMessageKey(otherTestId, 1)
     ELSE IF i = 3 THEN MessageKey(1)
     ELSE RunMessageKey(testId, i - 2)]

\* a message key as the queries see it: whether the scan finds it, what the
\* get of the pipeline gives for it ("value", "null" for a key that is gone by
\* then, "error"), whether JSON.parse accepts the value, and the record;
\* processingTimeMs is the set of the values of that field: empty when the
\* record has none (no confirmation yet)
AbsentValue ==
  [stored |-> FALSE, get |-> "null", parseable |-> FALSE, fromTenantId |-> <<>>,
   toTenantId |-> <<>>, message |-> "", processingTimeMs |-> {}]

MissingValue == [AbsentValue EXCEPT !.stored = TRUE]

ErrorValue == [AbsentValue EXCEPT !.stored = TRUE, !.get = "error"]

CorruptValue == [AbsentValue EXCEPT !.stored = TRUE, !.get = "value"]

StoredRecord(from, to, times) ==
  [stored |-> TRUE, get |-> "value", parseable |-> TRUE, fromTenantId |-> AgentId(from),
   toTenantId |-> AgentId(to), message |-> "Message", processingTimeMs |-> times]

\* what a key of the run can be: not there, gone or failing at its get, a
\* corrupt text, a record without confirmation, a record confirmed within the
\* millisecond of its send, and a record of the other sender confirmed later
RunValues ==
  {AbsentValue, MissingValue, ErrorValue, CorruptValue, StoredRecord(1, 2, {}),
   StoredRecord(1, 2, {0}), StoredRecord(2, 1, {1})}

\* a glob that matches the message keys of every run
MatchesAnyRun(id, key) == Len(key) = 3 /\ key[1] = "message"

\* the glob `message:${testId}:*`
Matches(id, key) == Len(key) = 3 /\ key[1] = "message" /\ key[2] = id

\* Math.floor
MathFloor(a, n) == a \div n

\* Math.round(a / n) for n > 0: the nearest integer, a half rounds up
MathRound(a, n) == (2 * a + n) \div (2 * n)

\* hgetall of test:<testId>:stats is empty until the first hincrby, which is
\* the one that takes totalMessages from 0 to 1
StatsEmpty(s) == s.totalMessages = 0

\* the result of calculateTotals from what hgetall returned
Totals(s) ==
  IF StatsEmpty(s) THEN {}
  ELSE {<<"totalMessages", s.totalMessages>>,
        <<"averageProcessingTimeMs",
          IF s.totalMessages > 0 THEN MathRound(s.totalProcessingTimeMs, s.totalMessages)
          ELSE 0>>}

NoMetrics == [a \in TenantIds |-> <<>>]

\* processingTimeMs || null: null is the empty set, and 0 is falsy
OrNull(times) == IF times = {0} THEN {} ELSE times

\* the onRecord of calculateMetricsByAgent; each entry is kept with the key
\* of the record it was made from
GroupByAgent(metrics, key, record) ==
  [metrics EXCEPT ![record.fromTenantId] =
     Append(@, <<key, [toTenantId |-> record.toTenantId, message |-> record.message,
                       processingTimeMs |-> OrNull(record.processingTimeMs)]>>)]

\* the onRecord of getMessagesByTestId: messages.push(message); each record is
\* kept with its key
PushMessage(collected, key, record) == Append(collected, <<key, record>>)

\* the onRecord that the query passes to scanJsonRecords
OnRecord(q, key, record) ==
  IF q.op \in {"metrics", "report"}
  THEN [q EXCEPT !.metrics = GroupByAgent(@, key, record)]
  ELSE [q EXCEPT !.collected = PushMessage(@, key, record)]

IdleQuery ==
  [op |-> "none", id |-> "", pc |-> "idle", status |-> "none", record |-> NoRecord,
   cursor |-> 0, page |-> <<>>, collected |-> <<>>, metrics |-> NoMetrics,
   totals |-> {}, totalsOf |-> {}]

NoReports == [dir |-> FALSE, files |-> {}]

\* `report-${testId}.json` and `report-${testId}-consolidated.json` in reportsDir
ReportPath(op, id) ==
  IF op = "consolidated" THEN <<"reports", "report", id, "consolidated">>
  ELSE <<"reports", "report", id>>

\* the report object of the two report functions
Report(q) ==
  IF q.op = "consolidated"
  THEN [record |-> q.record, totals |-> q.totals,
        messages |-> [i \in DOMAIN q.collected |-> q.collected[i][2]]]
  ELSE [record |-> q.record, totals |-> q.totals,
        metricsByAgent |-> [a \in DOMAIN q.metrics |->
                              [i \in DOMAIN q.metrics[a] |-> q.metrics[a][i][2]]]]

\* where a query goes on after its scan has ended
AfterScan(q) ==
  IF q.op = "report" THEN [q EXCEPT !.pc = "hgetall"]
  ELSE IF q.op = "consolidated" THEN [q EXCEPT !.pc = "mkdir"]
  ELSE [q EXCEPT !.pc = "done", !.status = "ok"]

\* where a query goes on after calculateTotals has returned
AfterTotals(q) ==
  IF q.op = "report" THEN [q EXCEPT !.pc = "mkdir"]
  ELSE IF q.op = "consolidated" THEN [q EXCEPT !.pc = "scan"]
  ELSE [q EXCEPT !.pc = "done", !.status = "ok"]

\* a query is called: the reports await redis.get of the run record,
\* calculateTotals awaits hgetall, the other two start the scan stream
CallQuery(op, id) ==
  /\ query.pc \in {"idle", "done"}
  /\ query' = [IdleQuery EXCEPT !.op = op, !.id = id,
                                !.pc = IF op \in {"report", "consolidated"} THEN "record"
                                       ELSE IF op = "totals" THEN "hgetall"
                                       ELSE "scan"]
  /\ UNCHANGED reports
  /\ UNCHANGED <<orchVars, tenants, ledgerVars, tenantCalls, identities, linkVars>>

\* a check that takes every run for recorded
RecordFoundAlways(rec) == TRUE

\* !testRecordData is false: redis.get gave the text of a run record
RecordFound(rec) == rec # NoRecord

\* redis.get of the run record resolves: a report throws 'not found' when
\* there is none; generateReport goes on with calculateMetricsByAgent,
\* generateConsolidatedReport with calculateTotals
ReportGetRecord ==
  /\ query.pc = "record"
  /\ LET rec == IF query.id = testId THEN testRecord ELSE NoRecord
     IN query' = IF ~RecordFound(rec)
                 THEN [query EXCEPT !.pc = "done", !.status = "not found"]
                 ELSE [query EXCEPT !.record = rec,
                                    !.pc = IF query.op = "report" THEN "scan" ELSE "hgetall"]
  /\ UNCHANGED reports
  /\ UNCHANGED <<orchVars, tenants, ledgerVars, tenantCalls, identities, linkVars>>

\* hgetall resolves: calculateTotals returns
TotalsRead ==
  /\ query.pc = "hgetall"
  /\ query' = AfterTotals([query EXCEPT
       !.totals = IF query.id = testId THEN Totals(stats) ELSE {},
       !.totalsOf = IF query.id = testId /\ ~StatsEmpty(stats) THEN {stats} ELSE {}])
  /\ UNCHANGED reports
  /\ UNCHANGED <<orchVars, tenants, ledgerVars, tenantCalls, identities, linkVars>>

\* the scan stream emits its next page: the keys of the next PageSize slots
\* that match the pattern and are in the store; the handler pauses the stream
\* and sends the pipeline of their gets, unless the page is empty
ScanPage ==
  /\ query.pc = "scan"
  /\ query.cursor < Len(ScanOrder)
  /\ LET last == Min(query.cursor + PageSize, Len(ScanOrder))
         keys == SelectSeq(SubSeq(ScanOrder, query.cursor + 1, last),
                           LAMBDA k : Matches(query.id, k) /\ messages[k].stored)
     IN query' = [query EXCEPT !.cursor = last, !.page = keys,
                               !.pc = IF keys = <<>> THEN "scan" ELSE "fetch"]
  /\ UNCHANGED reports
  /\ UNCHANGED <<orchVars, tenants, ledgerVars, tenantCalls, identities, linkVars>>

RECURSIVE OnResults(_, _)
\* results.forEach of scanJsonRecords: a result with an error or without a
\* value is skipped, one that does not parse is logged, the others go to onRecord
OnResults(q, keys) ==
  IF keys = <<>> THEN q
  ELSE LET k == Head(keys)
           v == messages[k]
           q1 == IF v.get # "value" \/ ~v.parseable THEN q
                 ELSE OnRecord(q, k, v)
       IN OnResults(q1, Tail(keys))

\* pipeline.exec resolves: the results are handled and the stream is resumed
PageFetched ==
  /\ query.pc = "fetch"
  /\ query' = [OnResults(query, query.page) EXCEPT !.pc = "scan", !.page = <<>>]
  /\ UNCHANGED reports
  /\ UNCHANGED <<orchVars, tenants, ledgerVars, tenantCalls, identities, linkVars>>

\* the stream ends after its last page: scanJsonRecords resolves
ScanEnd ==
  /\ query.pc = "scan"
  /\ query.cursor = Len(ScanOrder)
  /\ query' = AfterScan(query)
  /\ UNCHANGED reports
  /\ UNCHANGED <<orchVars, tenants, ledgerVars, tenantCalls, identities, linkVars>>

\* the stream emits an error or pipeline.exec rejects: scanJsonRecords rejects
\* and the query throws
ScanFails ==
  /\ query.pc \in {"scan", "fetch"}
  /\ query' = [IdleQuery EXCEPT !.op = query.op, !.id = query.id,
                                !.pc = "done", !.status = "error"]
  /\ UNCHANGED reports
  /\ UNCHANGED <<orchVars, tenants, ledgerVars, tenantCalls, identities, linkVars>>

\* fs.promises.mkdir(reportsDir, { recursive: true }) resolves
ReportMkdir ==
  /\ query.pc = "mkdir"
  /\ reports' = [reports EXCEPT !.dir = TRUE]
  /\ query' = [query EXCEPT !.pc = "write"]
  /\ UNCHANGED <<orchVars, tenants, ledgerVars, tenantCalls, identities, linkVars>>

\* fs.promises.writeFile(reportPath, ...) resolves: the report is returned
ReportWrite ==
  /\ query.pc = "write"
  /\ LET p == ReportPath(query.op, query.id)
     IN reports' = [reports EXCEPT !.files =
                      {f \in @ : f.path # p} \cup {[path |-> p, report |-> Report(query)]}]
  /\ query' = [query EXCEPT !.pc = "done", !.status = "ok"]
  /\ UNCHANGED <<orchVars, tenants, ledgerVars, tenantCalls, identities, linkVars>>

QueryOps == {"totals", "messages", "metrics", "report", "consolidated"}

QueryNext ==
  \/ \E op \in QueryOps : \E id \in QueryIds : CallQuery(op, id)
  \/ ReportGetRecord
  \/ TotalsRead
  \/ ScanPage
  \/ PageFetched
  \/ ScanEnd
  \/ ScanFails
  \/ ReportMkdir
  \/ ReportWrite

\* nc direct callers of createTenant and deleteTenant and nl of
\* createConnection, none of them in a call; no agent, no connection record
InitPoolWith(nc, nl) ==
  /\ tenantCalls = [c \in 1..nc |-> NoCall]
  /\ identities = [id \in TenantIds |-> 0]
  /\ connectionCalls = [c \in 1..nl |-> NoConnectionCall]
  /\ connectionRecords = [p \in RecordKeys |-> NoRecords]
  /\ query = IdleQuery
  /\ reports = NoReports

InitPool(nc) == InitPoolWith(nc, 0)

PoolNext ==
  \/ \E c \in DOMAIN tenantCalls : \E id \in TenantIds : CreateTenant(c, id)
  \/ \E c \in DOMAIN tenantCalls : CreateTenantResolved(c)
  \/ \E c \in DOMAIN tenantCalls : CreateTenantRejected(c)
  \/ \E c \in DOMAIN tenantCalls : \E id \in TenantIds : DeleteTenant(c, id)
  \/ \E c \in DOMAIN tenantCalls : DeleteTenantResolved(c)
  \/ \E c \in DOMAIN tenantCalls : DeleteTenantRejected(c)

\* createConnection calls from outside a run
ConnectionsNext ==
  \/ \E c \in DOMAIN connectionCalls : \E p \in RecordKeys : CreateConnection(c, p[1], p[2])
  \/ \E c \in DOMAIN connectionCalls : ConnectionChecked(c)
  \/ \E c \in DOMAIN connectionCalls : InvitationAccepted(c)
  \/ \E c \in DOMAIN connectionCalls : InvitationFailed(c)
  \/ \E c \in DOMAIN connectionCalls : ConnectionListed(c)
  \/ \E p \in RecordKeys : HandshakeCompletes(p)

(***************************************************************************)
(* activateTenantsForTest                                                  *)
(***************************************************************************)
cleanupDelayMs == 5000

\* the delays a caller passes: none scheduled, or a positive one
Delays == {0, cleanupDelayMs}

MaxActivations == 2

\* nothing of an earlier activateTenantsForTest call is pending: it returned or
\* threw, its creation tasks have ended, no timer is armed, no wallet.delete runs
ActivationQuiet ==
  /\ activation.pc \in {"idle", "returned", "failed"}
  /\ activation.timer # "armed"
  /\ \A i \in DOMAIN activation.deletes : activation.deletes[i] # "deleting"
  /\ activation.pc = "idle" \/ \A i \in Agents : createTask[i] \in {"done", "failed"}

\* activateTenantsForTest(testId, delay) up to its await of redis.get
ActivateTenantsForTest(d) ==
  /\ ActivationQuiet
  /\ activation.calls < MaxActivations
  /\ activation' = [IdleActivation EXCEPT !.pc = "reading", !.delay = d,
                                          !.calls = activation.calls + 1]
  /\ UNCHANGED <<simPc, activeRuns, stopSignal, testRecord, runPc, runUpd, agentIds,
                 createTask, tenants, connTask, connections, driver, deadlinePassed,
                 delIdx, stops, log>>
  /\ UNCHANGED <<parameters, ledgerVars, poolVars>>

\* a check that takes the parameters of every record as complete
MissingParametersNever(p) == FALSE

\* !numAgent || !nameAgent for the parameters of the record: the agent name of
\* the model is never empty, the number of agents can be 0
MissingParameters(p) == p.numAgent = 0

\* redis.get resolves: without a record or without its parameters the call
\* throws, otherwise createAgents starts its tasks with the record's numAgent
\* and nameAgent
ActivateRead ==
  /\ activation.pc = "reading"
  /\ IF testRecord = NoRecord \/ MissingParameters(parameters)
     THEN /\ activation' = [activation EXCEPT !.pc = "failed"]
          /\ UNCHANGED <<createTask, log>>
     ELSE LET nt == StartCreation([i \in 1..parameters.numAgent |-> "queued"], tenants)
          IN /\ createTask' = nt
             /\ log' = [log EXCEPT
                          !.createCalls =
                            CountStarted(@, [i \in 1..parameters.numAgent |-> "queued"], nt)]
             /\ activation' = [activation EXCEPT
                   !.pc = IF CreateOutcome(nt) = "rejected" THEN "failed" ELSE "creating"]
  /\ UNCHANGED <<simPc, activeRuns, stopSignal, testRecord, runPc, runUpd, agentIds,
                 tenants, connTask, connections, driver, deadlinePassed, delIdx, stops>>
  /\ UNCHANGED <<parameters, ledgerVars, poolVars>>

\* the cleanup timer fires: deleteTenant is called for every tenant id, each
\* call throwing at once for an unregistered id and otherwise suspending in
\* wallet.delete
CleanupTimerFires ==
  /\ activation.timer = "armed"
  /\ activation' = [activation EXCEPT
       !.timer = "fired",
       !.deletes = [i \in DOMAIN activation.tenantIds |->
                      IF DeleteTenantCheck(activation.tenantIds[i], tenants)
                      THEN "deleting" ELSE "rejected"]]
  /\ log' = [log EXCEPT !.deleteCalls = [i \in DOMAIN @ |-> @[i] + 1]]
  /\ UNCHANGED <<simPc, activeRuns, stopSignal, testRecord, runPc, runUpd, agentIds,
                 createTask, tenants, connTask, connections, driver, deadlinePassed,
                 delIdx, stops>>
  /\ UNCHANGED <<parameters, ledgerVars, poolVars>>

\* wallet.delete resolves for a tenant of the activation: it is unregistered
ActivationDeleteOk(i) ==
  /\ activation.deletes[i] = "deleting"
  /\ tenants' = Unregister(tenants, activation.tenantIds[i])
  /\ activation' = [activation EXCEPT !.deletes[i] = "deleted"]
  /\ UNCHANGED <<simPc, activeRuns, stopSignal, testRecord, runPc, runUpd, agentIds,
                 createTask, connTask, connections, driver, deadlinePassed,
                 delIdx, stops, log>>
  /\ UNCHANGED <<parameters, ledgerVars, poolVars>>

\* wallet.delete throws for a tenant of the activation: the error is logged
ActivationDeleteFail(i) ==
  /\ activation.deletes[i] = "deleting"
  /\ activation' = [activation EXCEPT !.deletes[i] = "rejected"]
  /\ UNCHANGED <<simPc, activeRuns, stopSignal, testRecord, runPc, runUpd, agentIds,
                 createTask, tenants, connTask, connections, driver, deadlinePassed,
                 delIdx, stops, log>>
  /\ UNCHANGED <<parameters, ledgerVars, poolVars>>

ActivateNext ==
  \/ \E d \in Delays : ActivateTenantsForTest(d)
  \/ ActivateRead
  \/ \E i \in Agents : CreateAgentOk(i)
  \/ \E i \in Agents : CreateAgentFail(i)
  \/ \E i \in Agents : CreateSleepDone(i)
  \/ CleanupTimerFires
  \/ \E i \in DOMAIN activation.deletes : ActivationDeleteOk(i)
  \/ \E i \in DOMAIN activation.deletes : ActivationDeleteFail(i)

(***************************************************************************)
(* The run orchestrator: one run and the stop requests for it.             *)
(***************************************************************************)
\* the state after construction, before a run of n agents with the
\* configuration cfg that receives at most k stop requests
InitIdle(n, k, cfg) ==
  /\ parameters = cfg
  /\ simPc = "idle"
  /\ activeRuns = {}
  /\ stopSignal = FALSE
  /\ runPc = "idle"
  /\ runUpd = [updates |-> NoRecord, existing |-> NoRecord]
  /\ agentIds = <<>>
  /\ createTask = [i \in 1..n |-> "none"]
  /\ connTask = [p \in PairsOf(n) |-> [attempt |-> 0, phase |-> "none"]]
  /\ connections = [p \in PairsOf(n) |-> "none"]
  /\ driver = [a \in 1..n |-> NoDriver]
  /\ deadlinePassed = FALSE
  /\ delIdx = 0
  /\ stops = [s \in 1..k |-> IdleStop]
  /\ activation = IdleActivation
  /\ log = [createCalls |-> [i \in 1..n |-> 0],
            deleteCalls |-> [i \in 1..n |-> 0],
            createFailed |-> FALSE, meshFailed |-> FALSE, deleteFailed |-> FALSE,
            driversLaunched |-> FALSE, stopAcked |-> FALSE]

\* no run has been recorded in the store
InitService(n, k, cfg) == InitIdle(n, k, cfg) /\ testRecord = NoRecord

\* the services after construction: the registry is empty
InitRunWith(n, k, cfg) == InitService(n, k, cfg) /\ tenants = {}

\* the same with messagesPerConnection messages in each of MaxBatches batches
InitRun(n, k) ==
  InitRunWith(n, k, [messagesPerConnection |-> messagesPerConnection,
                     maxBatches |-> MaxBatches, numAgent |-> n])

Init == InitRun(numAgent, MaxStops) /\ InitLedger(0, 0) /\ InitPool(0)

\* the steps of the run body and of the identity provider
RunNext ==
  \/ SimulateTest
  \/ SimulatePersisted
  \/ \E i \in Agents : CreateAgentOk(i)
  \/ \E i \in Agents : CreateAgentFail(i)
  \/ \E i \in Agents : CreateSleepDone(i)
  \/ Pause1Done
  \/ \E p \in Pairs : ConnectionOk(p)
  \/ \E p \in Pairs : ConnectionFail(p)
  \/ \E p \in Pairs : BackoffDone(p)
  \/ \E p \in Pairs : ConnectionCompletes(p)
  \/ Pause2Done
  \/ \E a \in Agents : IntervalTick(a)
  \/ \E a \in Agents : SelectPeer(a)
  \/ \E a \in Agents : SelectNone(a)
  \/ \E a \in Agents : SendResolves(a)
  \/ DeadlinePasses
  \/ RunUpdateRead
  \/ RunUpdateWrite
  \/ RunFinally
  \/ CleanupDelayDone
  \/ DeleteOk
  \/ DeleteFail

\* the stopSimulation calls
StopNext ==
  \/ \E s \in DOMAIN stops : StopSimulation(s)
  \/ \E s \in DOMAIN stops : StopUpdateRead(s)
  \/ \E s \in DOMAIN stops : StopUpdateWrite(s)
  \/ \E s \in DOMAIN stops : StopReturn(s)

Next == RunNext \/ StopNext

Spec == Init /\ [][Next]_vars

(***************************************************************************)
(* The same run and stop calls under fair scheduling: a timer that is due  *)
(* fires, a call to the provider or to the store that was issued completes *)
(* and a continuation that is ready runs. Nothing makes a caller start a   *)
(* run or request a stop.                                                  *)
(***************************************************************************)
RunProgress ==
  \/ \E a \in Agents : IntervalTick(a)
  \/ \E a \in Agents : SelectPeer(a)
  \/ \E a \in Agents : SelectNone(a)
  \/ \E a \in Agents : SendResolves(a)
  \/ DeadlinePasses
  \/ RunUpdateRead
  \/ RunUpdateWrite
  \/ RunFinally
  \/ CleanupDelayDone
  \/ DeleteOk
  \/ DeleteFail

SpecFair == Spec /\ WF_vars(RunProgress)

(***************************************************************************)
(* The same run and stop calls with a store that may reject the write of   *)
(* the initial record.                                                     *)
(***************************************************************************)
PersistNext == Next \/ SimulatePersistFails

SpecPersist == Init /\ [][PersistNext]_vars

(***************************************************************************)
(* A run of two agents whose drivers queue more sends than the limiter     *)
(* lets through at once, in more than one batch, and whose sends can throw *)
(* as well as resolve. A send that throws leaves the run where a send that *)
(* resolves leaves it, except for the error the driver logs, so the other  *)
(* specifications follow the sends that resolve only.                      *)
(***************************************************************************)
batchMessages == 2
batchCount == 2

InitDrive ==
  /\ InitRunWith(numAgent, MaxStops, [messagesPerConnection |-> batchMessages,
                                      maxBatches |-> batchCount,
                                      numAgent |-> numAgent])
  /\ InitLedger(0, 0)
  /\ InitPool(0)

NextDrive == Next \/ \E a \in Agents : SendThrows(a)

SpecDrive == InitDrive /\ [][NextDrive]_vars

(***************************************************************************)
(* A run of three agents (three pairs to connect), without stop requests.  *)
(***************************************************************************)
meshAgents == 3

InitMesh == InitRun(meshAgents, 0) /\ InitLedger(0, 0) /\ InitPool(0)

SpecMesh == InitMesh /\ [][RunNext]_vars

(***************************************************************************)
(* The same run up to the return of connectAllAgents: the steps of         *)
(* simulateTest, createAgents and connectAllAgents only.                   *)
(***************************************************************************)
ConnectNext ==
  \/ SimulateTest
  \/ SimulatePersisted
  \/ \E i \in Agents : CreateAgentOk(i)
  \/ \E i \in Agents : CreateAgentFail(i)
  \/ \E i \in Agents : CreateSleepDone(i)
  \/ Pause1Done
  \/ \E p \in Pairs : ConnectionOk(p)
  \/ \E p \in Pairs : ConnectionFail(p)
  \/ \E p \in Pairs : BackoffDone(p)
  \/ \E p \in Pairs : ConnectionCompletes(p)

SpecConnect == InitMesh /\ [][ConnectNext]_vars

(***************************************************************************)
(* The message ledger: sends, with and without a run id, and the events    *)
(* the provider emits for their threads.                                   *)
(***************************************************************************)
InitMsg == InitRun(numAgent, 0) /\ InitLedger(MaxThreads, MaxEvents) /\ InitPool(0)

SpecMsg == InitMsg /\ [][LedgerNext]_vars

(***************************************************************************)
(* Direct createConnection calls, made when earlier createTenant calls have *)
(* registered some of the tenant ids, one agent each.                      *)
(***************************************************************************)
InitConnections ==
  /\ InitService(numAgent, 0, [messagesPerConnection |-> messagesPerConnection,
                               maxBatches |-> MaxBatches, numAgent |-> numAgent])
  /\ InitLedger(0, 0)
  /\ tenants \in SUBSET TenantIds
  /\ tenantCalls = <<>>
  /\ identities = [id \in TenantIds |-> IF id \in tenants THEN 1 ELSE 0]
  /\ connectionCalls = [c \in 1..MaxConnectionCallers |-> NoConnectionCall]
  /\ connectionRecords = [p \in RecordKeys |-> NoRecords]
  /\ query = IdleQuery
  /\ reports = NoReports

(***************************************************************************)
(* The queries on a store that runs and handlers have written: the run's   *)
(* record is there or not, its statistics hash holds counters or is not    *)
(* there, and each message key of the run holds nothing, a corrupt text or *)
(* a record; the other run has one record.                                 *)
(***************************************************************************)
InitQuery ==
  /\ InitIdle(numAgent, 0, [messagesPerConnection |-> messagesPerConnection,
                            maxBatches |-> MaxBatches, numAgent |-> numAgent])
  /\ tenants = {}
  /\ InitPool(0)
  /\ testRecord \in {NoRecord, [status |-> "completed", endDate |-> TRUE, error |-> FALSE]}
  /\ clock = 0
  /\ sends = <<>>
  /\ handlers = <<>>
  /\ messageIndex = <<>>
  /\ msgLog = [patches |-> <<>>, increments |-> <<>>]
  /\ \E values \in [1..MaxRecords -> RunValues] :
       messages = [k \in {ScanOrder[i] : i \in DOMAIN ScanOrder} |->
                     IF k = MessageKey(1) \/ k = RunMessageKey(otherTestId, 1)
                     THEN StoredRecord(2, 1, {1})
                     ELSE values[k[3]]]
  /\ \E n \in 0..MaxEvents : \E ms \in 0..MaxTime :
       stats = [totalMessages |-> n, totalProcessingTimeMs |-> IF n = 0 THEN 0 ELSE ms]

SpecQuery == InitQuery /\ [][QueryNext]_vars

SpecConnections == InitConnections /\ [][ConnectionsNext]_vars

(***************************************************************************)
(* A run started with the agent name of an earlier run or activation that  *)
(* still holds some of its agents: createAgents derives the ids from the   *)
(* name, so the ids of the two coincide. identities has one identity for   *)
(* each id the earlier one holds; the earlier one takes no step meanwhile. *)
(***************************************************************************)
InitShared ==
  /\ InitService(numAgent, 0, [messagesPerConnection |-> messagesPerConnection,
                               maxBatches |-> MaxBatches, numAgent |-> numAgent])
  /\ InitLedger(0, 0)
  /\ tenants \in SUBSET TenantIds
  /\ tenantCalls = <<>>
  /\ identities = [id \in TenantIds |-> IF id \in tenants THEN 1 ELSE 0]
  /\ connectionCalls = <<>>
  /\ connectionRecords = [p \in RecordKeys |-> NoRecords]
  /\ query = IdleQuery
  /\ reports = NoReports

SpecShared == InitShared /\ [][RunNext]_vars

(***************************************************************************)
(* The tenant registry under direct, overlapping calls.                    *)
(***************************************************************************)
InitTenants == InitRun(numAgent, 0) /\ InitLedger(0, 0) /\ InitPool(MaxCallers)

SpecTenants == InitTenants /\ [][PoolNext]_vars

(***************************************************************************)
(* activateTenantsForTest, called on a fresh service (no record under the  *)
(* id) or after a run of n agents has completed and deleted its agents.    *)
(***************************************************************************)
\* the state a run of n agents without stop requests ends in when nothing
\* failed and the deadline passed before a batch was sent
AfterRun(n) ==
  /\ simPc = "returned"
  /\ activeRuns = {}
  /\ stopSignal = FALSE
  /\ testRecord = [status |-> "completed", endDate |-> TRUE, error |-> FALSE]
  /\ runPc = "done"
  /\ runUpd = [updates |-> [status |-> "completed", endDate |-> TRUE, error |-> FALSE],
               existing |-> [status |-> "running", endDate |-> FALSE, error |-> FALSE]]
  /\ agentIds = [i \in 1..n |-> AgentId(i)]
  /\ createTask = [i \in 1..n |-> "done"]
  /\ tenants = {}
  /\ connTask = [p \in PairsOf(n) |-> [attempt |-> 1, phase |-> "done"]]
  /\ connections = [p \in PairsOf(n) |-> "completed"]
  /\ driver = [a \in 1..n |-> [NoDriver EXCEPT !.phase = "resolved"]]
  /\ deadlinePassed = TRUE
  /\ delIdx = n + 1
  /\ stops = <<>>
  /\ log = [createCalls |-> [i \in 1..n |-> 1],
            deleteCalls |-> [i \in 1..n |-> 1],
            createFailed |-> FALSE, meshFailed |-> FALSE, deleteFailed |-> FALSE,
            driversLaunched |-> TRUE, stopAcked |-> FALSE]
  /\ activation = IdleActivation
  /\ parameters = [messagesPerConnection |-> messagesPerConnection,
                   maxBatches |-> MaxBatches, numAgent |-> n]

InitActivate ==
  /\ InitRun(meshAgents, 0) \/ AfterRun(meshAgents) \/ AfterRun(0)
  /\ InitLedger(0, 0)
  /\ InitPool(0)

SpecActivate == InitActivate /\ [][ActivateNext]_vars

(***************************************************************************)
(* Properties of the run orchestrator                                      *)
(***************************************************************************)
SetupFailed == log.createFailed \/ log.meshFailed

StopsSettled == \A s \in DOMAIN stops : stops[s].pc \in {"idle", "returned"}

\* C1: the persisted status of the run record is one of running, stopping,
\* completed, stopped, failed, and once completed, stopped or failed has been
\* persisted no later write changes it.
C1_StatusNeverRegresses ==
  [][/\ (testRecord' # NoRecord => testRecord'.status \in Statuses)
     /\ (testRecord.status \in Terminal => testRecord'.status = testRecord.status)]_vars

\* C2: when the run body did not fail, the final persisted status is stopped
\* if a stopSimulation call returned 'Stop requested', and completed otherwise.
C2_FinalStatusFollowsStop ==
  (runPc = "done" /\ ~SetupFailed /\ StopsSettled) =>
    testRecord.status = IF log.stopAcked THEN "stopped" ELSE "completed"

\* C3: when agent creation or mesh building fails, the run is recorded as
\* failed with the error, no driver is launched, and cleanup calls deleteTenant
\* for every agent the run created.
C3_SetupFailureCleansUp ==
  (runPc = "done" /\ SetupFailed) =>
    /\ testRecord.status = "failed" /\ testRecord.error
    /\ ~log.driversLaunched
    /\ \A i \in Agents : createTask[i] \in {"sleeping", "done"} => log.deleteCalls[i] >= 1

\* C4: a run of n agents in which nothing failed makes one createTenant call
\* and one deleteTenant call per agent id, the n ids are pairwise distinct, and
\* none of them is registered after cleanup.
C4_CreatedOnceDeletedOnce ==
  (runPc = "done" /\ ~SetupFailed /\ ~log.deleteFailed) =>
    /\ Len(agentIds) = Cardinality(Agents)
    /\ \A m, n \in 1..Len(agentIds) : m # n => agentIds[m] # agentIds[n]
    /\ \A i \in Agents : /\ agentIds[i] = AgentId(i)
                         /\ log.createCalls[i] = 1
                         /\ log.deleteCalls[i] = 1
    /\ tenants = {}

\* C4 witness: a run that completed after sending, all its agents deleted
C4_Witness ==
  /\ runPc = "done" /\ ~SetupFailed /\ ~log.deleteFailed
  /\ testRecord.status = "completed"
  /\ \E a \in Agents : driver[a].messageCount > 0

\* C5: at the step where the mesh build rejects because a pair failed its
\* last attempt, no other pair's retryConnection is still attempting or
\* backing off.
C5_OthersFinishedAtRejection ==
  [][(~log.meshFailed /\ log.meshFailed') =>
       \A p \in Pairs : connTask'[p].phase \in {"done", "failed"}]_vars

\* C6: a tenant id is registered at most once, also when createTenant calls
\* for it overlap: at most one of them succeeds, so the provider never holds
\* more than one agent for the id.
C6_AtMostOneIdentity == \A id \in TenantIds : identities[id] <= 1

HandlersIdle == \A h \in DOMAIN handlers : handlers[h].pc \in {"idle", "done"}

\* C8: whatever events the provider emits for a thread, the processing fields
\* of its message record are written at most once and the run counters are
\* incremented at most once for it.
C8_PatchedAtMostOnce ==
  /\ \A k \in DOMAIN messages : msgLog.patches[k] <= 1
  /\ \A t \in DOMAIN sends : msgLog.increments[t] <= 1

\* C9: in every state where no handler is part-way through, totalMessages of
\* the run's statistics equals the number of message records under the run id
\* that carry processingTimeMs.
C9_TotalsMatchRecords ==
  HandlersIdle =>
    stats.totalMessages =
      Cardinality({t \in DOMAIN sends : messages[RunMessageKey(testId, t)].processed})

\* C10: a message record with processing fields has processingTimeMs equal to
\* processedTimestamp minus timestamp and not negative, and a record no handler
\* has written carries no processing fields.
C10_ProcessingTimeNotNegative ==
  \A k \in DOMAIN messages :
    /\ messages[k].processed =>
         /\ messages[k].processingTimeMs =
              GetTime(messages[k].processedTimestamp) - GetTime(messages[k].timestamp)
         /\ messages[k].processingTimeMs >= 0
    /\ msgLog.patches[k] = 0 => ~messages[k].processed

\* C11: the counters of the run's statistics never decrease: every step leaves
\* totalMessages and totalProcessingTimeMs at least as large as they were.
C11_CountersNeverDecrease ==
  [][/\ stats'.totalMessages >= stats.totalMessages
     /\ stats'.totalProcessingTimeMs >= stats.totalProcessingTimeMs]_vars

(***************************************************************************)
(* Properties of activateTenantsForTest                                    *)
(***************************************************************************)
\* nothing of the activation is pending: no timer armed, no wallet.delete running
ActivationSettled ==
  /\ activation.pc = "returned"
  /\ activation.timer # "armed"
  /\ \A i \in DOMAIN activation.deletes : activation.deletes[i] # "deleting"

\* C12: every tenant created by activateTenantsForTest is deleted by the
\* deferred deletion, with a positive delay and with delay 0 alike: once the
\* call has returned and nothing of it is pending, none of its tenants is
\* registered, unless its deleteTenant call threw.
C12_ActivatedTenantsDeleted ==
  ActivationSettled =>
    \A i \in DOMAIN activation.tenantIds :
      \/ activation.tenantIds[i] \notin tenants
      \/ (i \in DOMAIN activation.deletes /\ activation.deletes[i] = "rejected")

C14_StopWithoutSignalChangesNothing ==
  [][\A s \in DOMAIN stops :
       /\ (stops[s].pc = "idle" /\ stops'[s].pc # "idle" /\ testId \notin activeRuns) =>
            /\ stops'[s] = [IdleStop EXCEPT !.pc = "returned", !.result = "no_active"]
            /\ UNCHANGED <<activeRuns, stopSignal, testRecord>>
       /\ (stops[s].result = "no_active" =>
            /\ stops'[s] = stops[s]
            /\ stops[s].pc = "returned")]_vars

\* C14 witness: a stop call made after the run finished found no stop signal
C14_Witness ==
  \E s \in DOMAIN stops :
    /\ stops[s].result = "no_active"
    /\ runPc = "done" /\ testRecord.status = "completed" /\ ~stopSignal

\* C15: stopSimulation for an active run sets stopRequested in the step of the
\* call, before its first await; it returns 'Stop requested' only after its
\* write of status stopping, whatever the run body is doing; and the flag, once
\* set, is never reset.
C15_StopSetsFlagAndPersists ==
  [][/\ \A s \in DOMAIN stops :
          /\ (stops[s].pc = "idle" /\ stops'[s].pc # "idle" /\ testId \in activeRuns) =>
               stopSignal' /\ stops'[s].pc = "read"
          /\ (stops[s].pc # "resume" /\ stops'[s].pc = "resume") =>
               testRecord'.status = "stopping"
          /\ (stops[s].result # "ack" /\ stops'[s].result = "ack") =>
               stops[s].pc = "resume" /\ stopSignal
     /\ (stopSignal => stopSignal')]_vars

\* C15 witness: 'Stop requested' was returned while the run body is still
\* driving messages
C15_Witness ==
  \E s \in DOMAIN stops :
    stops[s].result = "ack" /\ stopSignal /\ runPc = "driving"

\* C16: updates of the run record behave as atomic read-modify-write: no step
\* loses a field an earlier update wrote (endDate, error), and a record whose
\* status is completed, stopped or failed is not modified afterwards.
C16_NoLostUpdate ==
  [][/\ (testRecord.endDate => testRecord'.endDate)
     /\ (testRecord.error => testRecord'.error)
     /\ (testRecord.status \in Terminal => testRecord' = testRecord)]_vars

(***************************************************************************)
(* Properties of connectAllAgents and retryConnection                      *)
(***************************************************************************)
\* connectAllAgents has returned to the run body without throwing
MeshBuilt == runPc = "pause2" \/ log.driversLaunched

\* C17: connectAllAgents runs one retryConnection for each pair (i, j) with
\* i < j and for no other pair (n(n-1)/2 of them, no self pair, no pair in
\* both orders), and it has returned successfully only when createConnection
\* succeeded for every one of these pairs.
C17_EveryPairOnce ==
  LET n == Cardinality(Agents)
  IN /\ Pairs = {p \in Agents \X Agents : p[1] < p[2]}
     /\ 2 * Cardinality(Pairs) = n * (n - 1)
     /\ MeshBuilt =>
          \A p \in Pairs : /\ connTask[p].phase = "done"
                           /\ connTask[p].attempt \in 1..retries
                           /\ connections[p] \in {"requested", "completed"}

\* C17 witness: the mesh of three agents was built, one pair at its second attempt
C17_Witness ==
  /\ runPc = "pause2"
  /\ Cardinality(Pairs) = 3
  /\ \E p \in Pairs : connTask[p].attempt = 2

\* C18: each pair's createConnection is attempted at most 3 times: a success
\* ends the pair's attempts, a failure of attempt 1 or 2 is followed by a
\* backoff and the next attempt, a failure of attempt 3 fails the pair for
\* good, and a pair that succeeded or failed makes no further attempt.
C18_AtMostThreeAttempts ==
  [][\A p \in Pairs :
       LET a == connTask[p]
           b == connTask'[p]
       IN /\ b.attempt \in 0..3
          /\ (a.phase \in {"done", "failed"} => b = a)
          /\ (a.phase = "calling" /\ b # a) =>
               /\ b.attempt = a.attempt
               /\ \/ b.phase = "done"
                  \/ b.phase = "backoff" /\ a.attempt \in {1, 2}
                  \/ b.phase = "failed" /\ a.attempt = 3
          /\ (a.phase = "backoff" /\ b # a) =>
               /\ b.attempt = a.attempt + 1
               /\ b.phase \in {"calling", "backoff", "failed"}
          /\ (b.phase = "failed" => b.attempt = 3)]_vars

\* C18 witness: one pair failed its third attempt, another succeeded at its second
C18_Witness ==
  /\ \E p \in Pairs : connTask[p] = [attempt |-> 3, phase |-> "failed"]
  /\ \E q \in Pairs : connTask[q] = [attempt |-> 2, phase |-> "done"]

(***************************************************************************)
(* Properties of the message drivers                                       *)
(***************************************************************************)
\* the sends of a driver that have started and not finished: those waiting
\* for getRandomConnection and those inside sendMessage
InFlight(d) == d.selecting + d.sending

\* C19: for every driver, the sends in flight (started and not finished) never
\* exceed max(maxConcurrentMessages, 1), however many batches were enqueued.
C19_InFlightWithinLimit ==
  \A a \in Agents : InFlight(driver[a]) <= Limit(maxConcurrentMessages)

\* C19 witness: after its second batch a driver has as many sends in flight
\* as the limit allows and more waiting in the limiter's queue
C19_Witness ==
  \E a \in Agents :
    /\ driver[a].batches = 2
    /\ InFlight(driver[a]) = Limit(maxConcurrentMessages)
    /\ driver[a].queued >= 2

C21_NoAttemptAfterStop ==
  [][\A p \in Pairs :
       (stopSignal /\ connTask'[p].phase = "calling") =>
         (connTask[p].phase = "calling" /\ connTask'[p].attempt = connTask[p].attempt)]_vars

(***************************************************************************)
(* Properties of createTenant and deleteTenant as single calls             *)
(***************************************************************************)
\* C22: createTenant reaches the identity provider only for an id that is not
\* registered; for a registered id it fails with 'already exists' and changes
\* neither the registry nor the provider; when the provider resolves, the id
\* is registered and success is returned; when the provider throws, the call
\* returns the error and registers nothing.
C22_CreateTenantContract ==
  [][\A c \in DOMAIN tenantCalls :
       LET a == tenantCalls[c]
           b == tenantCalls'[c]
       IN /\ (a.pc = "idle" /\ b.pc = "creating") =>
               /\ b.id \notin tenants
               /\ tenants' = tenants /\ identities' = identities
          /\ (a # b /\ b.pc = "idle" /\ b.result = "already exists") =>
               /\ a.pc = "idle"
               /\ b.id \in tenants
               /\ tenants' = tenants /\ identities' = identities
          /\ a.pc = "creating" =>
               \/ b = a
               \/ /\ b = [pc |-> "idle", id |-> a.id, result |-> "created"]
                  /\ a.id \in tenants'
                  /\ identities'[a.id] = identities[a.id] + 1
               \/ /\ b = [pc |-> "idle", id |-> a.id, result |-> "error"]
                  /\ tenants' = tenants /\ identities' = identities]_vars

\* C22 witness: one caller was refused with 'already exists' for a registered
\* id while another caller got the provider's error for an id that is not
\* registered
C22_Witness ==
  \E c, d \in DOMAIN tenantCalls :
    /\ tenantCalls[c].pc = "idle" /\ tenantCalls[c].result = "already exists"
    /\ tenantCalls[c].id \in tenants
    /\ tenantCalls[d].pc = "idle" /\ tenantCalls[d].result = "error"
    /\ tenantCalls[d].id \notin tenants
    /\ identities[tenantCalls[d].id] = 0

\* C23: deleteTenant reaches the provider's teardown only for a registered id;
\* for an unregistered id it fails with 'does not exist' and changes nothing;
\* when the teardown resolves the id is removed from the registry; when it
\* throws the call returns the error and the registry is unchanged.
C23_DeleteTenantContract ==
  [][\A c \in DOMAIN tenantCalls :
       LET a == tenantCalls[c]
           b == tenantCalls'[c]
       IN /\ (a.pc = "idle" /\ b.pc = "deleting") =>
               /\ b.id \in tenants
               /\ tenants' = tenants /\ identities' = identities
          /\ (a # b /\ b.pc = "idle" /\ b.result = "does not exist") =>
               /\ a.pc = "idle"
               /\ b.id \notin tenants
               /\ tenants' = tenants /\ identities' = identities
          /\ a.pc = "deleting" =>
               \/ b = a
               \/ /\ b = [pc |-> "idle", id |-> a.id, result |-> "deleted"]
                  /\ a.id \notin tenants'
                  /\ tenants' = tenants \ {a.id}
                  /\ identities'[a.id] = identities[a.id] - 1
               \/ /\ b = [pc |-> "idle", id |-> a.id, result |-> "error"]
                  /\ tenants' = tenants /\ identities' = identities]_vars

\* C23 witness: one caller was refused with 'does not exist' while another
\* caller's teardown of a registered id failed and the id is still registered
C23_Witness ==
  \E c, d \in DOMAIN tenantCalls :
    /\ tenantCalls[c].pc = "idle" /\ tenantCalls[c].result = "does not exist"
    /\ tenantCalls[c].id \notin tenants
    /\ tenantCalls[d].pc = "idle" /\ tenantCalls[d].result = "error"
    /\ tenantCalls[d].id \in tenants
    /\ identities[tenantCalls[d].id] = 1

(***************************************************************************)
(* Properties of createConnection as a single call                         *)
(***************************************************************************)
\* from's agent holds a completed connection record whose peer label is to
Connected(from, to) ==
  connectionRecords[<<from, to>>].completed + connectionRecords[<<from, to>>].inbound > 0

\* C24: a createConnection(from, to) call whose check finds a completed
\* connection of from with peer label to returns 'already exists', starts no
\* handshake and leaves every connection record as it is; a call goes on to the
\* invitation only when its check found no such connection; so after the pair
\* is connected, further calls leave the connection set as it is.
C24_ConnectedPairIdempotent ==
  [][\A c \in DOMAIN connectionCalls :
       LET a == connectionCalls[c]
           b == connectionCalls'[c]
       IN /\ (a.pc = "checking" /\ b # a /\ Connected(a.from, a.to)) =>
               /\ b = [a EXCEPT !.pc = "idle", !.result = "already exists"]
               /\ connectionRecords' = connectionRecords
          /\ (a.pc = "checking" /\ b.pc = "inviting") => ~Connected(a.from, a.to)
          /\ (b # a /\ b.result = "already exists") =>
               /\ a.pc = "checking"
               /\ Connected(a.from, a.to)
               /\ connectionRecords' = connectionRecords]_vars

\* C24 witness: after one handshake of a pair completed, two calls for the
\* pair have returned 'already exists' and the pair still has that one record
C24_Witness ==
  \E c, d \in DOMAIN connectionCalls :
    /\ c # d
    /\ connectionCalls[c].result = "already exists"
    /\ connectionCalls[d] = connectionCalls[c]
    /\ connectionRecords[<<connectionCalls[c].from, connectionCalls[c].to>>]
         = [requested |-> 0, completed |-> 1, inbound |-> 0]
    /\ Handshakes(connectionRecords) = 1

\* the result of calculateTotals is what the claim says of the hash it read
TotalsAsSpecified(q) ==
  IF q.totalsOf = {} THEN q.totals = {}
  ELSE \A s \in q.totalsOf :
         \E r \in 0..(s.totalProcessingTimeMs + 1) :
           /\ q.totals = {<<"totalMessages", s.totalMessages>>,
                          <<"averageProcessingTimeMs", r>>}
           /\ IF s.totalMessages = 0 THEN r = 0
              ELSE /\ 2 * r * s.totalMessages <= 2 * s.totalProcessingTimeMs + s.totalMessages
                   /\ 2 * s.totalProcessingTimeMs + s.totalMessages
                        < 2 * r * s.totalMessages + 2 * s.totalMessages

ReadableRecords(id) ==
  {<<k, messages[k]>> : k \in {j \in DOMAIN messages :
      /\ Len(j) = 3 /\ j[1] = "message" /\ j[2] = id
      /\ messages[j].stored /\ messages[j].get = "value" /\ messages[j].parseable}}

\* the entries of a run that a reader has to skip
SkippedKeys(id) ==
  {j \in DOMAIN messages :
      /\ Len(j) = 3 /\ j[2] = id /\ messages[j].stored
      /\ (messages[j].get # "value" \/ ~messages[j].parseable)}

\* C26: getMessagesByTestId returns exactly the parseable records stored under
\* the keys message:<runId>:*, each once and as stored, over all pages of the
\* scan; entries that are missing, errored or not parseable are skipped
\* without failing the call, records of other runs are never returned, and a
\* run without records gives an empty result.
C26_MessagesOfRunExactly ==
  /\ [](query.op = "messages" /\ query.pc = "done" /\ query.status = "ok" =>
          /\ {query.collected[i] : i \in DOMAIN query.collected} = ReadableRecords(query.id)
          /\ Len(query.collected) = Cardinality(ReadableRecords(query.id)))
  /\ [][query.op = "messages" /\ query.pc = "fetch" /\ query'.pc = "scan" =>
          /\ query'.status = "none"
          /\ \A i \in DOMAIN query.page :
               query.page[i] \in SkippedKeys(query.id) =>
                 Len(query'.collected) < Len(query.collected) + Len(query.page)]_vars

\* getMessagesByTestId has returned the one readable record of a run that
\* also has an entry to skip, while another run has a record too
C26_Witness ==
  /\ query.op = "messages" /\ query.pc = "done" /\ query.status = "ok"
  /\ query.id = testId
  /\ SkippedKeys(testId) # {}
  /\ Len(query.collected) = 1
  /\ ReadableRecords(otherTestId) # {}

\* the entries of the groups of calculateMetricsByAgent, each with its sender
GroupedEntries(q) ==
  UNION {{<<a, q.metrics[a][i]>> : i \in DOMAIN q.metrics[a]} : a \in DOMAIN q.metrics}

RECURSIVE SumOver(_, _)
SumOver(f, S) ==
  IF S = {} THEN 0
  ELSE LET x == CHOOSE y \in S : TRUE IN f[x] + SumOver(f, S \ {x})

NamedByRunId(q) ==
  IF q.op = "report" THEN <<"reports", "report", q.id>>
  ELSE <<"reports", "report", q.id, "consolidated">>

\* C28: generateReport and generateConsolidatedReport fail with a not-found
\* error when the Run Record is absent, and then write no report file or
\* directory and compute no metric; when the record exists the report is
\* written in the reports directory under report-<runId>.json, respectively
\* report-<runId>-consolidated.json.
C28_ReportNeedsRunRecord ==
  /\ [](query.op \in {"report", "consolidated"} /\ query.status = "not found" =>
          /\ query.pc = "done"
          /\ query.cursor = 0 /\ query.collected = <<>> /\ query.metrics = NoMetrics
          /\ query.totals = {} /\ query.totalsOf = {})
  /\ [][query.op \in {"report", "consolidated"} /\ query.pc = "record" /\ query'.pc # "record" =>
          LET absent == query.id # testId \/ testRecord.status = "absent"
          IN /\ absent <=> query'.status = "not found"
             /\ absent => UNCHANGED reports]_vars
  /\ [][query.op \in {"report", "consolidated"} /\ query.pc # "done" /\ query'.pc = "done"
          /\ query'.status = "ok" =>
          /\ reports'.dir
          /\ \E f \in reports'.files :
               f.path = NamedByRunId(query) /\ f.report.record = testRecord
          /\ \A f \in reports'.files : f \in reports.files \/ f.path = NamedByRunId(query)]_vars

\* one call of a report has failed with not found for a run without a record,
\* and the report of the recorded run is in the reports directory
C28_Witness ==
  /\ query.op = "consolidated" /\ query.status = "not found" /\ query.id = otherTestId
  /\ \E f \in reports.files : f.path = <<"reports", "report", testId>>
  /\ reports.dir

\* a step of the cleanup of runSimulation's finally block
CleanupStep ==
  /\ runPc \in {"upd_resume", "cleanup_wait", "deleting"}
  /\ runPc' # runPc \/ delIdx' # delIdx

\* C29: a failure to delete an agent during cleanup is logged only: it does
\* not change the run's persisted status, it does not leave the run body, and
\* cleanup still calls deleteTenant for every remaining agent of the run.
C29_DeleteFailureLoggedOnly ==
  /\ [][CleanupStep =>
          /\ testRecord' = testRecord
          /\ runPc' \in {"cleanup_wait", "deleting", "done"}
          /\ delIdx' >= delIdx]_vars
  /\ [](runPc = "done" =>
          \A i \in DOMAIN log.deleteCalls :
            log.deleteCalls[i] = Cardinality({n \in DOMAIN agentIds : agentIds[n] = AgentId(i)}))

\* the run body is over, the deletion of an agent failed and left it
\* registered, deleteTenant was called for each of the two agents, and the
\* run is recorded as completed
C29_Witness ==
  /\ runPc = "done"
  /\ log.deleteFailed
  /\ AgentId(1) \in tenants
  /\ Len(agentIds) = 2
  /\ \A i \in DOMAIN log.deleteCalls : log.deleteCalls[i] = 1
  /\ testRecord.status = "completed"

\* the createTenant calls of createAgents that have not settled
CreatesInFlight == {i \in DOMAIN createTask : createTask[i] = "creating"}

\* C30: during createAgents the number of createTenant calls in flight is at
\* most max(maxConcurrentAgentCreation, 1), however many agents are to be
\* created.
C30_CreationWithinLimit ==
  Cardinality(CreatesInFlight) <=
    (IF maxConcurrentAgentCreation > 1 THEN maxConcurrentAgentCreation ELSE 1)

\* as many createTenant calls as the limit allows are in flight while a
\* further agent waits in the limiter's queue
C30_Witness ==
  /\ Cardinality(CreatesInFlight) =
       (IF maxConcurrentAgentCreation > 1 THEN maxConcurrentAgentCreation ELSE 1)
  /\ \E i \in DOMAIN createTask : createTask[i] = "queued"
  /\ \E i \in DOMAIN createTask : createTask[i] = "done"

\* the ids `${nameAgent}-${i + 1}` for the numAgent of the run record
RecordedAgentIds == [i \in 1..parameters.numAgent |-> AgentId(i)]

StoppedUpdates == [status |-> "stopped", endDate |-> TRUE, error |-> FALSE]

\* the run body left at one of its two checks of the stop signal
StoppedAtCheck == runUpd.updates = StoppedUpdates /\ ~log.driversLaunched

\* C32: if the Stop Signal is set when the run body checks it after agent
\* creation or after mesh building, the run persists status stopped with an
\* end timestamp and goes straight to cleanup: after the first check no
\* connection attempt is made and no Message Driver is launched, after the
\* second no Message Driver is launched, and every created agent is deleted.
C32_StopAtCheckGoesToCleanup ==
  /\ [][(runPc' # runPc /\ runPc \in {"pause1", "pause2"} /\ stopSignal) =>
          /\ runPc' = "upd_read" /\ runUpd'.updates = StoppedUpdates
          /\ UNCHANGED <<connTask, connections, driver>>
          /\ log'.driversLaunched = FALSE]_vars
  /\ [](StoppedAtCheck =>
          /\ runPc \in {"upd_read", "upd_write", "upd_resume", "cleanup_wait", "deleting", "done"}
          /\ \A a \in Agents : driver[a] = NoDriver
          /\ \/ \A p \in Pairs : connTask[p].attempt = 0 /\ connections[p] = "none"
             \/ \A p \in Pairs : connTask[p].phase = "done")
  /\ [][StoppedAtCheck /\ runPc = "upd_write" /\ runPc' # runPc =>
          testRecord'.status = "stopped" /\ testRecord'.endDate]_vars
  /\ [](StoppedAtCheck /\ runPc = "done" =>
          /\ Len(agentIds) = Cardinality(Agents)
          /\ \A i \in Agents : log.deleteCalls[i] = 1
          /\ log.deleteFailed \/ tenants = {})

\* a run stopped at its first check is over: it was recorded as stopped, no
\* connection was attempted, and its two agents were deleted
C32_Witness ==
  /\ StoppedAtCheck /\ runPc = "done"
  /\ \A p \in Pairs : connTask[p].attempt = 0
  /\ Len(agentIds) = 2 /\ tenants = {} /\ ~log.deleteFailed
  /\ testRecord.status = "stopped"

\* C33: once the stop signal is set or the deadline has passed a Message Driver
\* enqueues no further batch; after a stop request the sends that were queued
\* and not yet started are skipped without a call of the Identity Provider,
\* while a send already dispatched runs to completion and the driver awaits it.
C33_NoBatchAfterStopOrDeadline ==
  /\ [][\A a \in Agents :
          /\ (stopSignal \/ deadlinePassed) /\ driver[a].phase # "none" =>
               driver'[a].batches = driver[a].batches
          /\ stopSignal =>
               /\ driver'[a].selecting <= driver[a].selecting
               /\ driver'[a].sending + driver'[a].selecting
                    <= driver[a].sending + driver[a].selecting
               /\ driver'[a].messageCount - driver[a].messageCount
                    <= driver[a].selecting - driver'[a].selecting
          /\ driver'[a].sending >= driver[a].sending - 1
          /\ driver[a].phase = "resolved" => driver'[a] = driver[a]]_vars
  /\ [](\A a \in Agents :
          /\ driver[a].phase = "resolved" => Pending(driver[a]) = 0
          /\ log.driversLaunched /\ runPc # "driving" => Pending(driver[a]) = 0)

\* a driver has resolved after a stop request that came before the deadline:
\* of the two sends of its only batch, the one that had started was sent and
\* the one still queued was skipped
C33_Witness ==
  \E a \in Agents :
    /\ stopSignal /\ ~deadlinePassed
    /\ driver[a].phase = "resolved"
    /\ driver[a].batches = 1
    /\ driver[a].messageCount = 1
    /\ Peers(a) # {}

\* the sender has no connection in state completed
NoCompleted(a) ==
  \A p \in Pairs : a \in {p[1], p[2]} => connections[p] # "completed"

\* C34: when peer selection finds no completed connection for the sender the
\* send attempt is a no-op: the provider's send is not called, no Message
\* Record is written, the sender's message counter is not advanced, no
\* failure is raised, and the driver goes on with its next attempts.
C34_NoPeerIsNoOp ==
  [][\A a \in Agents :
       (NoCompleted(a) /\ Pending(driver'[a]) < Pending(driver[a])) =>
         /\ driver[a].selecting > 0
         /\ driver'[a].sending = 0 /\ driver[a].sending = 0
         /\ driver'[a].messageCount = driver[a].messageCount
         /\ driver'[a].failed = driver[a].failed
         /\ driver'[a].batches = driver[a].batches
         /\ UNCHANGED <<messages, messageIndex, sends, stats, testRecord>>
         /\ \/ driver'[a].phase = driver[a].phase
            \/ driver[a].phase = "draining" /\ driver'[a].phase = "resolved"
         /\ ~stopSignal => Pending(driver'[a]) = Pending(driver[a]) - 1
         /\ \A b \in Agents \ {a} : driver'[b] = driver[b]]_vars

\* a driver whose sender has no completed connection has had the first send
\* of its batch end as a no-op and has started the second: nothing was
\* counted, nothing failed, and its interval timer is still running
C34_Witness ==
  \E a \in Agents :
    /\ NoCompleted(a) /\ ~stopSignal /\ ~deadlinePassed
    /\ driver[a].phase = "interval"
    /\ driver[a].batches = 1
    /\ driver[a].selecting = 1 /\ driver[a].queued = 0
    /\ driver[a].messageCount = 0 /\ driver[a].failed = 0

\* the deleteTenant calls for the id that are suspended in wallet.delete
Teardowns(id) ==
  {c \in DOMAIN tenantCalls : tenantCalls[c].pc = "deleting" /\ tenantCalls[c].id = id}

\* C35: deletion of a registered tenant happens at most once even when two
\* deleteTenant calls for its id overlap: the teardown of the one identity
\* under the id is invoked by at most one of them.
C35_TeardownAtMostOnce ==
  \A id \in TenantIds : identities[id] <= 1 => Cardinality(Teardowns(id)) <= 1

\* the createTenant calls of the run that have not settled: waiting in the
\* creation limiter or suspended in the provider
CreationsPending == {i \in DOMAIN createTask : createTask[i] \in {"queued", "creating"}}

\* the retryConnection tasks of the run that are attempting or backing off
RetriesPending == {p \in DOMAIN connTask : connTask[p].phase \in {"calling", "backoff"}}

\* the run body is in its finally block after createAgents or connectAllAgents rejected
CleanupAfterSetupFailure ==
  /\ runPc \in {"cleanup_wait", "deleting"}
  /\ log.createFailed \/ MeshOutcome(connTask) = "rejected"

\* C36: when the run body enters cleanup after a failure of agent creation or
\* of mesh building, no createTenant call of the run is still queued or in
\* flight and no retryConnection task of the run is still attempting or
\* backing off.
C36_NoSetupWorkPendingAtCleanup ==
  CleanupAfterSetupFailure => CreationsPending = {} /\ RetriesPending = {}

\* the key sendMessage stores the record of thread t under
SendKey(t) == IF sends[t].scoped THEN RunMessageKey(testId, t) ELSE MessageKey(t)

\* the handlers that took the delivery-completion event of thread t
HandlersOf(t) == {h \in DOMAIN handlers : handlers[h].pc # "idle" /\ handlers[h].threadId = t}

\* C37: when sendMessage has returned for a thread and every handler of the
\* thread's delivery-completion event has finished, the thread's Message
\* Record carries the processing fields, whatever the order of the sender's
\* write and the event.
C37_ConfirmedDeliveryNotLost ==
  \A t \in DOMAIN sends :
    (/\ sends[t].pc = "returned"
     /\ HandlersOf(t) # {}
     /\ \A h \in HandlersOf(t) : handlers[h].pc = "done")
    => messages[SendKey(t)].processed

\* the simulateTest call has nothing left to run: it threw before the run
\* body started, or the run body returned
RunSettled == simPc = "failed" \/ runPc = "done"

\* a stopSimulation call takes its first step
StopCalled(s) == stops[s].pc = "idle" /\ stops'[s].pc # "idle"

\* C38: the Stop Signal of a run id is in the active-run map from simulateTest
\* until the run body settles: once the run has settled on any path, a failure
\* to persist the initial Run Record included, the entry is gone from the map,
\* and a stopSimulation call made then reports no active run and writes nothing.
C38_SignalRemovedOnEveryPath ==
  /\ [](RunSettled => testId \notin activeRuns)
  /\ [][\A s \in DOMAIN stops :
          (runPc = "done" /\ StopCalled(s)) =>
            /\ stops'[s].pc = "returned" /\ stops'[s].result = "no_active"
            /\ UNCHANGED <<testRecord, stopSignal>>]_vars

\* the ids the earlier run or activation holds when the later run starts
HeldByEarlier == {id \in TenantIds : identities[id] > 0}

\* C39: a run started with the agent ids of an earlier run or activation that
\* still holds agents fails on creation and neither registers nor deletes
\* anything: the registry keeps exactly the agents of the earlier one.
C39_LaterRunTouchesNothing ==
  HeldByEarlier # {} =>
    /\ tenants = HeldByEarlier
    /\ runPc \notin {"idle", "creating"} => log.createFailed

\* the drivers are running and the deadline has passed or a stop was requested
DriversMustReturn == runPc = "driving" /\ (deadlinePassed \/ stopSignal)

\* the run body's write of a final status has been applied
FinalStatusPersisted == runPc = "upd_resume" /\ testRecord.status \in Terminal

\* C40: under fair scheduling, once the deadline has passed or the stop signal
\* is set while the Message Drivers run, every driver eventually resolves, the
\* run body eventually persists a final status and it eventually completes
\* cleanup.
C40_DriversEventuallyReturn ==
  /\ \A a \in 1..numAgent : DriversMustReturn ~> (driver[a].phase = "resolved")
  /\ DriversMustReturn ~> FinalStatusPersisted
  /\ DriversMustReturn ~> (runPc = "done")

C40_Witness ==
  /\ runPc = "done" /\ log.driversLaunched /\ stopSignal /\ ~deadlinePassed
  /\ \A a \in Agents : driver[a].phase = "resolved" /\ driver[a].messageCount > 0

====
